---- MODULE Spec2Model ----
(***************************************************************************)
(* Fourier-Transform-Mixer: the background mixing job of AsyncJobManager   *)
(* (src/engine/async_job_manager.py), the ImageModel and its caches        *)
(* (src/models/image_model.py), the session registry and its size          *)
(* unification (src/models/global_session_state.py,                        *)
(* src/utils/unit_unificator.py, src/controllers/controller.py) and the    *)
(* mixes of MixerEngine (src/engine/mixer_engine.py).                      *)
(*                                                                         *)
(* Specifications: JobSpec / FairJobSpec (the job manager), ImageSpec (one *)
(* ImageModel used by two threads), SessionSpec (the registry: uploads,    *)
(* removals, size unification), ControllerSpec (the controller: uploads,   *)
(* sliders, mode, the start of a mix), MixSpec (the mixes as functions of  *)
(* their arguments).  Each one moves its own variables and leaves the      *)
(* others at their initial values.                                         *)
(*                                                                         *)
(* Threads: one control thread (start_mixing_job / cancel_current_job) and *)
(* one worker thread per started job.  Every `with self._lock:` block is   *)
(* one atomic step; the code between two blocks is a step of its own.      *)
(* Progress values are kept in tenths: 0.0 -> 0, 0.1 -> 1, 1.0 -> 10,      *)
(* -1.0 -> -10.                                                            *)
(***************************************************************************)
EXTENDS Integers, Sequences, FiniteSets, TLC

\* ------------------------------------------------------------------ bounds
\* number of start_mixing_job calls explored (one worker thread per call)
MaxJobs == 2

\* create_mask: the longest side of a mask and the largest coordinate of a
\* rectangle explored (coordinates start at -1)
MaxSide == 3
MaxCoord == 3

\* ------------------------------------------------------- program constants
PROGRESS_RESET == 0
PROGRESS_BEGUN == 1
PROGRESS_DONE  == 10
PROGRESS_ERROR == 0 - 10

\* Python's None, one per type of value so that comparisons stay well-typed
None == "None"
NoMask == <<>>
NoPixels == <<>>
NoShape == <<>>
NoResult == [mix |-> None]
NoInputs == [mode |-> None]

\* outcome of a call: a returned value or a raised exception
Return(v) == [kind |-> "return", value |-> v]
Raise(e)  == [kind |-> "raise", value |-> e]

\* ------------------------------------------------------------ numpy arrays
\* A 2-D array is a sequence of rows.  The pictures explored have axes of
\* length 1, 2 or 4: there the discrete Fourier transform has the roots of
\* unity 1, -i, -1 and i only, so a transform is an array of complex numbers
\* with whole real and imaginary parts.
Shape(a) == IF a = <<>> THEN <<>> ELSE <<Len(a), Len(a[1])>>

\* the array with all its rows and cells worked out (s \o <<>> is s)
Array(a) == [i \in 1..Len(a) |-> a[i] \o <<>>] \o <<>>

MapArray(F(_), a) ==
    Array([i \in 1..Len(a) |-> [j \in 1..Len(a[i]) |-> F(a[i][j])]])

Transpose(a) == Array([j \in 1..Len(a[1]) |-> [i \in 1..Len(a) |-> a[i][j]]])

Complex(re, im) == [re |-> re, im |-> im]

CAdd(x, y) == Complex(x.re + y.re, x.im + y.im)

\* z * (-i)^m
Rot(z, m) ==
    CASE m % 4 = 0 -> z
      [] m % 4 = 1 -> Complex(z.im, 0 - z.re)
      [] m % 4 = 2 -> Complex(0 - z.re, 0 - z.im)
      [] OTHER -> Complex(0 - z.im, z.re)

RECURSIVE CSum(_)
\* the sum of a sequence of complex numbers
CSum(zs) == IF zs = <<>> THEN Complex(0, 0) ELSE CAdd(Head(zs), CSum(Tail(zs)))

AbsInt(x) == IF x < 0 THEN 0 - x ELSE x

\* 1-D transform of a vector of length N in {1, 2, 4}: the N-th root of
\* unity exp(-2 pi i / N) is (-i)^(4/N)
fft(v) ==
    [k \in 1..Len(v) |->
        CSum([n \in 1..Len(v) |->
                 Rot(v[n], (n - 1) * (k - 1) * (4 \div Len(v)))] \o <<>>)] \o <<>>

\* the 1-D transform of every row
fft_rows(a) == Array([i \in 1..Len(a) |-> fft(a[i])])

\* np.fft.fft2: the transform along the rows, then along the columns
fft2(a) ==
    Transpose(fft_rows(Transpose(fft_rows(MapArray(LAMBDA x : Complex(x, 0), a)))))

\* np.roll along one axis
roll(v, k) == [i \in 1..Len(v) |-> v[((i - 1 - k) % Len(v)) + 1]] \o <<>>

\* np.fft.fftshift: every axis rolled by half its length
fftshift(a) ==
    LET shift_columns(rows) ==
            Array([i \in 1..Len(rows) |-> roll(rows[i], Len(rows[i]) \div 2)])
    IN shift_columns(roll(a, Len(a) \div 2))

\* np.abs of a complex number (the modulus; exact when it is an integer)
np_abs(z) ==
    CHOOSE r \in 0..(AbsInt(z.re) + AbsInt(z.im)) : r * r = z.re * z.re + z.im * z.im

\* np.angle of a complex number on an axis, in quarter turns (pi/2)
np_angle(z) ==
    IF z.im = 0 THEN (IF z.re < 0 THEN 2 ELSE 0)
    ELSE IF z.im > 0 THEN 1 ELSE 0 - 1

np_real(z) == z.re

np_imag(z) == z.im

\* ndarray.astype(np.uint8) of whole numbers
astype_uint8(a) == MapArray(LAMBDA x : x % 256, a)

\* One pass of PIL's LANCZOS resize along a vector.  From 2 pixels to 1 both
\* pixels weigh one half and the result is rounded half up; from 1 pixel to 2
\* the only pixel is copied; the same length is left alone.
ResizeAxis(v, n) ==
    IF n = Len(v) THEN v
    ELSE IF n = 1 THEN <<(v[1] + v[2] + 1) \div 2>>
    ELSE <<v[1], v[1]>>

\* Image.resize((width, height), LANCZOS): horizontal pass, then vertical pass
PILResize(a, target_shape) ==
    LET pass(rows, n) == Array([i \in 1..Len(rows) |-> ResizeAxis(rows[i], n)])
    IN Transpose(pass(Transpose(pass(a, target_shape[2])), target_shape[1]))

\* -------------------------------------------------------------- ImageModel
\* uploaded contents: a picture that decodes to grayscale pixels, or bytes
\* that PIL cannot open
Picture(pixels) == [format |-> "picture", pixels |-> pixels]
Garbage == [format |-> "garbage", pixels |-> NoPixels]

\* base64 decoding, Image.open and the conversion to mode 'L'
Decode(contents) ==
    IF contents.format = "picture" THEN Return(contents.pixels)
    ELSE Raise("cannot identify image file")

\* pixels of uploaded pictures: 1x2, 2x1, 2x2 and 1x4
P12 == <<<<9, 1>>>>
P12b == <<<<2, 6>>>>
P21 == <<<<4>>, <<8>>>>
P22 == <<<<3, 1>>, <<1, 1>>>>
P14 == <<<<0, 2, 0, 6>>>>

\* ImageModel(): nothing loaded, shape ()
NewImageModel ==
    [raw |-> NoPixels, complex_arr |-> NoPixels, shape |-> NoShape,
     cached_magnitude |-> NoPixels, cached_phase |-> NoPixels,
     cached_real |-> NoPixels, cached_imag |-> NoPixels]

\* a variant of _reset_cache that forgets to clear the magnitude cache
_reset_cache_keeps_magnitude(image) ==
    [image EXCEPT !.complex_arr = NoPixels, !.cached_phase = NoPixels,
                  !.cached_real = NoPixels, !.cached_imag = NoPixels]

\* a variant of _reset_cache that clears the transform and leaves the caches
_reset_cache_of_transform_only(image) == [image EXCEPT !.complex_arr = NoPixels]

_reset_cache(image) ==
    [image EXCEPT !.complex_arr = NoPixels, !.cached_magnitude = NoPixels,
                  !.cached_phase = NoPixels, !.cached_real = NoPixels,
                  !.cached_imag = NoPixels]

\* the two assignments of load_from_contents before its _reset_cache
load_store(image, pixels) ==
    [image EXCEPT !.raw = pixels, !.shape = Shape(pixels)]

\* the two assignments of resize before its _reset_cache
resize_store(image, target_shape) ==
    [image EXCEPT !.raw = PILResize(astype_uint8(image.raw), target_shape),
                  !.shape = target_shape]

\* load_from_contents as a whole; a decoding error is printed and swallowed
load_from_contents(image, contents) ==
    IF Decode(contents).kind = "return"
    THEN _reset_cache(load_store(image, Decode(contents).value))
    ELSE image

\* resize as a whole
resize(image, target_shape) ==
    IF image.raw = NoPixels THEN image
    ELSE _reset_cache(resize_store(image, target_shape))

_compute_fft(image) == [image EXCEPT !.complex_arr = fftshift(fft2(image.raw))]

Kinds == {"magnitude", "phase", "real", "imag"}

\* the component of a transform that get_data derives for `kind`
Component(kind, complex_arr) ==
    IF kind = "magnitude" THEN MapArray(np_abs, complex_arr)
    ELSE IF kind = "phase" THEN MapArray(np_angle, complex_arr)
    ELSE IF kind = "real" THEN MapArray(np_real, complex_arr)
    ELSE MapArray(np_imag, complex_arr)

Cached(image, kind) ==
    IF kind = "magnitude" THEN image.cached_magnitude
    ELSE IF kind = "phase" THEN image.cached_phase
    ELSE IF kind = "real" THEN image.cached_real
    ELSE image.cached_imag

\* get_data, first half: the transform is computed unless it is there
get_data_transform(image) ==
    IF image.complex_arr = NoPixels THEN _compute_fft(image) ELSE image

\* get_data, second half: the cache of `kind` is filled unless it is there
get_data_fill(image, kind) ==
    LET assign(component) ==
            IF kind = "magnitude" THEN [image EXCEPT !.cached_magnitude = component]
            ELSE IF kind = "phase" THEN [image EXCEPT !.cached_phase = component]
            ELSE IF kind = "real" THEN [image EXCEPT !.cached_real = component]
            ELSE [image EXCEPT !.cached_imag = component]
    IN IF Cached(image, kind) # NoPixels THEN image
       ELSE assign(Component(kind, image.complex_arr))

\* a variant of get_data that answers with a zero pixel when nothing is loaded
get_data_of_nothing(image, component_type) ==
    IF image.raw = NoPixels
    THEN [image |-> image, out |-> Return(<<<<0>>>>)]
    ELSE IF component_type = "raw"
    THEN [image |-> image, out |-> Return(image.raw)]
    ELSE IF component_type \notin Kinds
    THEN [image |-> get_data_transform(image),
          out |-> Raise("Unknown component type")]
    ELSE LET return(filled) ==
                 [image |-> filled, out |-> Return(Cached(filled, component_type))]
         IN return(get_data_fill(get_data_transform(image), component_type))

\* get_data as a whole: the image afterwards and the outcome of the call
get_data(image, component_type) ==
    IF image.raw = NoPixels
    THEN [image |-> image, out |-> Raise("No image data loaded")]
    ELSE IF component_type = "raw"
    THEN [image |-> image, out |-> Return(image.raw)]
    ELSE IF component_type \notin Kinds
    THEN [image |-> get_data_transform(image),
          out |-> Raise("Unknown component type")]
    ELSE LET return(filled) ==
                 [image |-> filled, out |-> Return(Cached(filled, component_type))]
         IN return(get_data_fill(get_data_transform(image), component_type))

\* what get_data(kind) has to return for raw pixels `raw`
ComponentOfRaw(kind, raw) == Component(kind, fftshift(fft2(raw)))

\* --------------------------------------------------- ImageModel: display
\* the values of an array
Values(a) == {a[i][j] : i \in 1..Len(a), j \in 1..Len(a[1])}

SetMax(S) == CHOOSE x \in S : \A y \in S : y <= x

SetMin(S) == CHOOSE x \in S : \A y \in S : x <= y

\* np.log(np.abs(x) + 1.0).  The logarithm is strictly increasing, and the
\* normalisation that follows keeps of its values only which one is the
\* smallest and which one the largest: the value is kept as its rank |x|.
log1p_abs(x) == AbsInt(x)

\* (data - min) / (max - min), or zeros when max = min, clipped to 0..1.
\* Exact for arrays of at most two distinct values, which the pictures
\* explored give; an array with a third value has no value in this model.
Normalize(data) ==
    LET scale(data_min, data_max) ==
            IF data_max > data_min
            THEN MapArray(LAMBDA x : IF x = data_max THEN 1
                                     ELSE IF x = data_min THEN 0
                                     ELSE CHOOSE q \in {} : TRUE, data)
            ELSE MapArray(LAMBDA x : 0, data)
    IN scale(SetMin(Values(data)), SetMax(Values(data)))

\* the display transform of get_visual_data applied to get_data's value
Visual(component_type, data) ==
    IF component_type \in {"magnitude", "real", "imag"}
    THEN Normalize(MapArray(log1p_abs, data))
    ELSE Normalize(data)

\* a variant of get_visual_data that keeps the display data in the place
\* of the data it was worked out from
get_visual_data_in_place(image, component_type) ==
    LET keep(img, shown) ==
            IF component_type = "raw" THEN [img EXCEPT !.raw = shown]
            ELSE IF component_type = "magnitude"
            THEN [img EXCEPT !.cached_magnitude = shown]
            ELSE IF component_type = "phase" THEN [img EXCEPT !.cached_phase = shown]
            ELSE IF component_type = "real" THEN [img EXCEPT !.cached_real = shown]
            ELSE [img EXCEPT !.cached_imag = shown]
        show(data) ==
            IF data.out.kind = "raise" THEN data
            ELSE [image |-> keep(data.image, Visual(component_type, data.out.value)),
                  out |-> Return(Visual(component_type, data.out.value))]
    IN show(get_data(image, component_type))

\* get_visual_data with the default brightness and contrast: the image
\* afterwards (get_data fills its caches) and the outcome of the call
get_visual_data(image, component_type) ==
    LET show(data) ==
            IF data.out.kind = "raise" THEN data
            ELSE [image |-> data.image,
                  out |-> Return(Visual(component_type, data.out.value))]
    IN show(get_data(image, component_type))

\* -------------------------------------------------------------- MixerEngine
\* positions of `sources` that refer to an image of the list (idx < len(images));
\* Python indices are 0-based, the sequence is 1-based
UsedImages(sources, images) ==
    {i \in 1..Len(images) : (i - 1) \in DOMAIN sources}

SumWeights(sources) ==
    LET RECURSIVE Sum(_)
        Sum(S) == IF S = {} THEN 0
                  ELSE LET k == CHOOSE k \in S : TRUE
                       IN sources[k] + Sum(S \ {k})
    IN Sum(DOMAIN sources)

\* images whose component a mix reads: the weighted ones when the weights sum
\* to more than 0, the first image otherwise
ReadImages(sources, images) ==
    IF SumWeights(sources) > 0 THEN UsedImages(sources, images) ELSE {1}

\* ImageModel.get_data raises when no raw pixels are loaded
get_data_raises(image) == image.raw = NoPixels

\* np.zeros(shape)
Zeros(shape) == Array([i \in 1..shape[1] |-> [j \in 1..shape[2] |-> 0]])

\* element-wise a + b * w and a * b of arrays of one shape
AddScaled(a, b, w) ==
    Array([i \in 1..Len(a) |-> [j \in 1..Len(a[i]) |-> a[i][j] + b[i][j] * w]])

Times(a, b) ==
    Array([i \in 1..Len(a) |-> [j \in 1..Len(a[i]) |-> a[i][j] * b[i][j]]])

\* a variant that gives every image of the list the weight of all entries
CoefficientOfAllEntries(sources, p) ==
    [num |-> SumWeights(sources), den |-> SumWeights(sources)]

\* A mixed component is an array of fractions with one denominator:
\* [num |-> array, den |-> whole number > 0].
\* the coefficient w / total that the loop applies to the image at a position
Coefficient(sources, p) == [num |-> sources[p - 1], den |-> SumWeights(sources)]

RECURSIVE WeightedSum(_, _, _, _, _)
\* the loop `mixed += images[idx].get_visual_data(kind) * (w / total)` over the
\* positions P, starting from the array acc; numerators over the total
WeightedSum(acc, sources, images, kind, P) ==
    IF P = {} THEN acc
    ELSE LET p == CHOOSE q \in P : TRUE
         IN WeightedSum(AddScaled(acc, get_visual_data(images[p], kind).out.value,
                                  Coefficient(sources, p).num),
                        sources, images, kind, P \ {p})

\* one mixed component before the mask: the weighted sum when the weights sum
\* to more than 0, the first image's get_visual_data otherwise
MixComponent(sources, images, kind) ==
    IF SumWeights(sources) > 0
    THEN [num |-> WeightedSum(Zeros(images[1].shape), sources, images, kind,
                              UsedImages(sources, images)),
          den |-> SumWeights(sources)]
    ELSE [num |-> get_visual_data(images[1], kind).out.value, den |-> 1]

\* `mixed *= mask`
Masked(mixed, mask) == [num |-> Times(mixed.num, mask), den |-> mixed.den]

\* the component kinds of the two mixes
FirstKind(op) == IF op = "mag_phase" THEN "magnitude" ELSE "real"

SecondKind(op) == IF op = "mag_phase" THEN "phase" ELSE "imag"

\* a variant that multiplies the second component by the mask in both mixes
MaskSecondAlways(op, mixed, mask) == Masked(mixed, mask)

\* the mask on the second component: mix_images_real_imag multiplies the
\* imaginary part, mix_images_mag_phase leaves the phase alone
MaskSecond(op, mixed, mask) ==
    IF op = "real_imag" THEN Masked(mixed, mask) ELSE mixed

\* The value a mix returns is _perform_ifft of the spectrum rebuilt from the
\* two mixed components; it is kept as the pair it is rebuilt from.
Reconstruction(op, comp1, comp2) == [mix |-> op, comp1 |-> comp1, comp2 |-> comp2]

\* a mix of a non-empty image list; the two mixes have the same control
\* flow and `op` names the mix
MixLoaded(op, sources1, sources2, images, mask) ==
    IF \E i \in ReadImages(sources1, images) \cup ReadImages(sources2, images) :
          get_data_raises(images[i])
    THEN Raise("No image data loaded")
    ELSE IF mask # NoMask /\ Shape(mask) # images[1].shape
    THEN Raise("Mask shape does not match image shape")
    ELSE LET reconstruct(mixed1, mixed2) ==
                 IF mask = NoMask
                 THEN Return(Reconstruction(op, mixed1, mixed2))
                 ELSE Return(Reconstruction(op, Masked(mixed1, mask),
                                            MaskSecond(op, mixed2, mask)))
         IN reconstruct(MixComponent(sources1, images, FirstKind(op)),
                        MixComponent(sources2, images, SecondKind(op)))

\* a variant that answers an empty image list with an empty mix
MixImagesOfNothing(op, sources1, sources2, images, mask) ==
    IF Len(images) = 0
    THEN Return(Reconstruction(op, [num |-> <<>>, den |-> 1], [num |-> <<>>, den |-> 1]))
    ELSE MixLoaded(op, sources1, sources2, images, mask)

\* a variant that mixes without the mask when the mask has another shape
MixImagesAnyMask(op, sources1, sources2, images, mask) ==
    IF Len(images) = 0
    THEN Raise("No images provided")
    ELSE MixLoaded(op, sources1, sources2, images,
                   IF mask # NoMask /\ Shape(mask) # images[1].shape
                   THEN NoMask ELSE mask)

MixImages(op, sources1, sources2, images, mask) ==
    IF Len(images) = 0
    THEN Raise("No images provided")
    ELSE MixLoaded(op, sources1, sources2, images, mask)

mix_images_mag_phase(magnitude_sources, phase_sources, images, mask) ==
    MixImages("mag_phase", magnitude_sources, phase_sources, images, mask)

mix_images_real_imag(real_sources, imag_sources, images, mask) ==
    MixImages("real_imag", real_sources, imag_sources, images, mask)

mix_images_unified(mode, component1_sources, component2_sources, images, mask) ==
    IF mode = "mag_phase"
    THEN mix_images_mag_phase(component1_sources, component2_sources, images, mask)
    ELSE IF mode = "real_imag"
    THEN mix_images_real_imag(component1_sources, component2_sources, images, mask)
    ELSE Raise("Unknown mode")

\* What a mix leaves in the objects it was handed.  The weights and the
\* mask are only read (sum, items, shape, the right-hand side of `*=`); an
\* image is touched by its get_visual_data calls only.
\* a variant in which a read keeps the display data in the image
ImageAfterReadInPlace(image, kind) == get_visual_data_in_place(image, kind).image

\* the image after `images[idx].get_visual_data(kind)`
ImageAfterRead(image, kind) == get_visual_data(image, kind).image

RECURSIVE ReadAll(_, _, _, _)
\* one mixing loop from position p on: the images of P are read in the order
\* of their indices (the weights' keys are 0, 1, 2, 3 in this order) until a
\* read raises
ReadAll(images, kind, P, p) ==
    IF p > Len(images) THEN [images |-> images, raised |-> FALSE]
    ELSE IF p \notin P THEN ReadAll(images, kind, P, p + 1)
    ELSE IF get_data_raises(images[p]) THEN [images |-> images, raised |-> TRUE]
    ELSE ReadAll([images EXCEPT ![p] = ImageAfterRead(images[p], kind)],
                 kind, P, p + 1)

\* the image list after a mix: the first component's reads, then the
\* second's unless a read raised
ImagesAfterMix(op, sources1, sources2, images) ==
    LET second(first) ==
            IF first.raised THEN first.images
            ELSE ReadAll(first.images, SecondKind(op),
                         ReadImages(sources2, images), 1).images
    IN IF Len(images) = 0 THEN images
       ELSE second(ReadAll(images, FirstKind(op), ReadImages(sources1, images), 1))

\* the arguments after mix_images_mag_phase or mix_images_real_imag
InputsAfterMix(op, sources1, sources2, images, mask) ==
    [sources1 |-> sources1, sources2 |-> sources2,
     images |-> ImagesAfterMix(op, sources1, sources2, images), mask |-> mask]

\* the arguments after mix_images_unified, which reads nothing for a mode
\* it does not know
InputsAfterUnified(mode, sources1, sources2, images, mask) ==
    IF mode \in {"mag_phase", "real_imag"}
    THEN InputsAfterMix(mode, sources1, sources2, images, mask)
    ELSE [sources1 |-> sources1, sources2 |-> sources2, images |-> images,
          mask |-> mask]

\* unpacks the inputs dictionary built by Controller.start_mixing_job
run_async_task(inputs) ==
    mix_images_unified(inputs.mode, inputs.weights1, inputs.weights2,
                       inputs.images, inputs.mask)

\* ------------------------------------------------------------ RegionHandler
\* rect_coords None
NoRect == <<>>

\* max(0, min(v, n - 1)) for a dimension n >= 1
Clamp(v, n) == IF v > n - 1 THEN n - 1 ELSE IF v < 0 THEN 0 ELSE v

\* a variant of np.ones that leaves the last cell at 0
OnesButLast(shape) ==
    Array([i \in 1..shape[1] |-> [j \in 1..shape[2] |->
              IF i = shape[1] /\ j = shape[2] THEN 0 ELSE 1]])

\* np.ones(shape)
Ones(shape) == Array([i \in 1..shape[1] |-> [j \in 1..shape[2] |-> 1]])

\* a variant that paints the rectangle without its last row and column
PaintExclusive(shape, x1, y1, x2, y2, fill, value) ==
    Array([i \in 1..shape[1] |-> [j \in 1..shape[2] |->
              IF y1 <= i - 1 /\ i - 1 < y2 /\ x1 <= j - 1 /\ j - 1 < x2
              THEN value ELSE fill]])

\* `mask[y1:y2+1, x1:x2+1] = value` on an array of `shape` full of `fill`.
\* The bounds are clamped and ordered when create_mask gets here, so the
\* slices are the rows y1..y2 and the columns x1..x2 (0-based).
Paint(shape, x1, y1, x2, y2, fill, value) ==
    Array([i \in 1..shape[1] |-> [j \in 1..shape[2] |->
              IF y1 <= i - 1 /\ i - 1 < y2 + 1 /\ x1 <= j - 1 /\ j - 1 < x2 + 1
              THEN value ELSE fill]])

\* a variant that treats every mask as an inner mask
PolarityInner(is_inner) == [fill |-> 0, value |-> 1]

\* inner mask: zeros with the rectangle at 1; outer mask: ones with the
\* rectangle at 0
Polarity(is_inner) ==
    IF is_inner THEN [fill |-> 0, value |-> 1] ELSE [fill |-> 1, value |-> 0]

\* RegionHandler.create_mask(shape, rect_coords, is_inner)
create_mask(shape, rect_coords, is_inner) ==
    LET ordered(x1, y1, x2, y2) ==
            Paint(shape,
                  IF x1 > x2 THEN x2 ELSE x1, IF y1 > y2 THEN y2 ELSE y1,
                  IF x1 > x2 THEN x1 ELSE x2, IF y1 > y2 THEN y1 ELSE y2,
                  Polarity(is_inner).fill, Polarity(is_inner).value)
    IN IF rect_coords = NoRect THEN Ones(shape)
       ELSE ordered(Clamp(rect_coords[1], shape[2]), Clamp(rect_coords[2], shape[1]),
                    Clamp(rect_coords[3], shape[2]), Clamp(rect_coords[4], shape[1]))

\* MixerEngine.create_region_mask hands its arguments to the region handler
create_region_mask(shape, rect_coords, is_inner) ==
    create_mask(shape, rect_coords, is_inner)

\* ------------------------------------------------------------------ inputs
Image22 == load_from_contents(NewImageModel, Picture(P22))

\* region masks: one of the images' shape and one of another shape
Mask22 == <<<<1, 0>>, <<1, 1>>>>
Mask12 == <<<<1, 0>>>>

WeightsFirst == (0 :> 10) @@ (1 :> 0)
WeightsZero  == (0 :> 0) @@ (1 :> 0)

\* a mix of one image by magnitude/phase, the same by real/imaginary, and a
\* mix whose mask does not have the images' shape (raises)
InputsA == [mode |-> "mag_phase", weights1 |-> WeightsFirst, weights2 |-> WeightsFirst,
            images |-> <<Image22>>, mask |-> NoMask]
InputsB == [mode |-> "real_imag", weights1 |-> WeightsFirst, weights2 |-> WeightsZero,
            images |-> <<Image22>>, mask |-> Mask22]
InputsBad == [mode |-> "mag_phase", weights1 |-> WeightsFirst, weights2 |-> WeightsFirst,
              images |-> <<Image22>>, mask |-> Mask12]

\* callback argument of start_mixing_job: absent, returning, or raising
Callbacks == {None, "returns", "raises"}

\* the start_mixing_job calls explored: Controller's call (no callback) with a
\* mix that returns and with one that raises, and calls with a callback
JobCalls == {[inputs |-> InputsA, callback |-> None],
             [inputs |-> InputsBad, callback |-> None],
             [inputs |-> InputsB, callback |-> "returns"],
             [inputs |-> InputsBad, callback |-> "returns"],
             [inputs |-> InputsA, callback |-> "raises"]}

\* ------------------------------------------------------------------- state
VARIABLES
    \* AsyncJobManager and its threads
    _current_job,     \* AsyncJobManager._current_job: 0 (None) or a worker id
    _job_cancelled,   \* AsyncJobManager._job_cancelled
    _progress,        \* AsyncJobManager._progress, in tenths
    _result,          \* AsyncJobManager._result
    cpc,              \* position of the control thread
    cargs,            \* arguments of the start_mixing_job call in progress
    njobs,            \* number of worker threads created so far
    wpc,              \* position of each worker thread
    wargs,            \* inputs and callback captured by each job_worker closure,
                      \* what run_async_task makes of these inputs, and
                      \* history: how many times the callback was called
    progress_by,      \* history: the job whose code wrote _progress last
    result_by,        \* history: the job whose code wrote _result last
    \* one ImageModel used by a mutating thread and a reading thread
    image,            \* the fields of the ImageModel
    image_lock,       \* ImageModel._lock: "free" or the thread that holds it
    tpc,              \* position of each of the two threads
    targs,            \* arguments and locals of the call of each thread
    got,              \* history: the last get_data call that ended
    dropped,          \* history: the last mutation found a transform computed
    \* Controller and GlobalSessionState
    _images,          \* GlobalSessionState._images, in insertion order
    _min_shape,       \* GlobalSessionState._min_shape
    _weights_comp1,   \* Controller._weights_comp1
    _weights_comp2,   \* Controller._weights_comp2
    _mode,            \* Controller._mode
    _current_mask,    \* Controller._current_mask
    job_inputs,       \* local `inputs` of Controller.start_mixing_job, while called
    uploaded,         \* history: the shape of each slot's pixels, as uploaded
    last_call,        \* history: the last call on the controller or registry
    \* one call of a mix of MixerEngine
    mix_args,         \* the arguments of the call
    mix_out,          \* its outcome, once the call has ended
    mix_after,        \* the objects handed to the call, once it has ended
    \* one call of a function of RegionHandler or ImageModel
    call_args,        \* the arguments of the call
    call_out,         \* what it returned or raised, once the call has ended
    \* a handle_upload of the control thread and the mix of a worker thread,
    \* statement by statement, on the ImageModels of the registry
    upload,           \* position and locals of the handle_upload in progress
    mixrun,           \* position and locals of the mix in progress
    \* the threads of the job manager, lock by lock
    _lock             \* AsyncJobManager._lock: "free" or the thread that holds it

jobVars == <<_current_job, _job_cancelled, _progress, _result, cpc, cargs, njobs,
             wpc, wargs, progress_by, result_by>>

imageVars == <<image, image_lock, tpc, targs, got, dropped>>

sessionVars == <<_images, _min_shape, _weights_comp1, _weights_comp2, _mode,
                 _current_mask, job_inputs, uploaded, last_call>>

mixVars == <<mix_args, mix_out, mix_after>>

callVars == <<call_args, call_out>>

raceVars == <<upload, mixrun>>

lockVars == <<_lock>>

vars == <<jobVars, imageVars, sessionVars, mixVars, callVars, raceVars, lockVars>>

Workers == 1..MaxJobs

NoArgs == [inputs |-> NoInputs, callback |-> None]

\* threading.Thread.is_alive: started and not yet terminated
is_alive(w) == wpc[w] \notin {"none", "created", "done"}

\* ------------------------------------------------------------------ reads
get_progress == _progress

get_result == _result

\* a variant that reports any live worker thread of the manager
is_job_running_any == \E w \in Workers : is_alive(w)

is_job_running ==
    IF _current_job = 0 THEN FALSE ELSE is_alive(_current_job)

\* -------------------------------------------------------------------- Init
JobInit ==
    /\ _current_job = 0
    /\ _job_cancelled = FALSE
    /\ _progress = PROGRESS_RESET
    /\ _result = NoResult
    /\ cpc = "idle"
    /\ cargs = NoArgs
    /\ njobs = 0
    /\ wpc = [w \in Workers |-> "none"]
    /\ wargs = [w \in Workers |-> NoArgs]
    /\ progress_by = 0
    /\ result_by = 0

\* ---------------------------------------------------------- control thread
\* the `with self._lock: self._job_cancelled = True` block of cancel_current_job
RaiseCancelFlag == _job_cancelled' = TRUE

\* start_mixing_job is called: cancel_current_job raises the flag
StartCall(inputs, callback) ==
    /\ cpc = "idle"
    /\ njobs < MaxJobs
    /\ RaiseCancelFlag
    /\ cargs' = [inputs |-> inputs, callback |-> callback]
    /\ cpc' = "start_join"
    /\ UNCHANGED <<_current_job, _progress, _result, njobs, wpc, wargs,
                   progress_by, result_by>>
    /\ UNCHANGED <<imageVars, sessionVars, mixVars, callVars, raceVars, lockVars>>

\* `if self._current_job and self._current_job.is_alive(): join(timeout=0.1)`:
\* the join returns when the worker has terminated or when the timeout expires,
\* whichever comes first, so the control thread goes on whether or not the
\* worker is still alive
StartJoin ==
    /\ cpc = "start_join"
    /\ cpc' = "start_reset"
    /\ UNCHANGED <<_current_job, _job_cancelled, _progress, _result, cargs, njobs,
                   wpc, wargs, progress_by, result_by>>
    /\ UNCHANGED <<imageVars, sessionVars, mixVars, callVars, raceVars, lockVars>>

\* the reset block: the flag is lowered, progress and result are cleared
StartReset ==
    /\ cpc = "start_reset"
    /\ _job_cancelled' = FALSE
    /\ _progress' = PROGRESS_RESET
    /\ _result' = NoResult
    /\ progress_by' = njobs + 1
    /\ result_by' = njobs + 1
    /\ cpc' = "start_create"
    /\ UNCHANGED <<_current_job, cargs, njobs, wpc, wargs>>
    /\ UNCHANGED <<imageVars, sessionVars, mixVars, callVars, raceVars, lockVars>>

\* self._current_job = threading.Thread(target=job_worker, daemon=True).
\* run_async_task depends on the inputs of the closure alone: what it returns
\* or raises is worked out here, once, and the worker reads it at its call.
StartCreate ==
    /\ cpc = "start_create"
    /\ njobs' = njobs + 1
    /\ _current_job' = njobs + 1
    /\ wpc' = [wpc EXCEPT ![njobs + 1] = "created"]
    /\ wargs' = [wargs EXCEPT ![njobs + 1] =
                     [inputs |-> cargs.inputs, callback |-> cargs.callback,
                      mix |-> run_async_task(cargs.inputs), called |-> 0]]
    /\ cargs' = NoArgs
    /\ cpc' = "start_run"
    /\ UNCHANGED <<_job_cancelled, _progress, _result, progress_by, result_by>>
    /\ UNCHANGED <<imageVars, sessionVars, mixVars, callVars, raceVars, lockVars>>

\* self._current_job.start(); start_mixing_job returns
StartRun ==
    /\ cpc = "start_run"
    /\ wpc' = [wpc EXCEPT ![_current_job] = "begin"]
    /\ cpc' = "idle"
    /\ UNCHANGED <<_current_job, _job_cancelled, _progress, _result, cargs, njobs,
                   wargs, progress_by, result_by>>
    /\ UNCHANGED <<imageVars, sessionVars, mixVars, callVars, raceVars, lockVars>>

\* cancel_current_job called on its own
CancelCall ==
    /\ cpc = "idle"
    /\ RaiseCancelFlag
    /\ cpc' = "cancel_join"
    /\ UNCHANGED <<_current_job, _progress, _result, cargs, njobs, wpc, wargs,
                   progress_by, result_by>>
    /\ UNCHANGED <<imageVars, sessionVars, mixVars, callVars, raceVars, lockVars>>

CancelJoin ==
    /\ cpc = "cancel_join"
    /\ cpc' = "idle"
    /\ UNCHANGED <<_current_job, _job_cancelled, _progress, _result, cargs, njobs,
                   wpc, wargs, progress_by, result_by>>
    /\ UNCHANGED <<imageVars, sessionVars, mixVars, callVars, raceVars, lockVars>>

\* ----------------------------------------------------------- worker thread
\* worker w moves to position pc
Goto(w, pc) ==
    /\ wpc' = [wpc EXCEPT ![w] = pc]
    /\ UNCHANGED wargs

\* worker w moves to position pc after `if callback: callback(...)`
GotoAfterCallback(w, pc) ==
    /\ wpc' = [wpc EXCEPT ![w] = pc]
    /\ wargs' = [wargs EXCEPT ![w].called =
                    IF wargs[w].callback = None THEN @ ELSE @ + 1]

\* first block of job_worker: return when cancelled, else publish progress 0.1
WorkerBegin(w) ==
    /\ wpc[w] = "begin"
    /\ IF _job_cancelled
       THEN /\ Goto(w, "done")
            /\ UNCHANGED <<_progress, progress_by>>
       ELSE /\ _progress' = PROGRESS_BEGUN
            /\ progress_by' = w
            /\ Goto(w, "compute")
    /\ UNCHANGED <<_current_job, _job_cancelled, _result, cpc, cargs, njobs,
                   result_by>>
    /\ UNCHANGED <<imageVars, sessionVars, mixVars, callVars, raceVars, lockVars>>

\* result = self._mixer_engine.run_async_task(inputs), outside the lock
WorkerCompute(w) ==
    /\ wpc[w] = "compute"
    /\ Goto(w, IF wargs[w].mix.kind = "return"
               THEN "publish" ELSE "except")
    /\ UNCHANGED <<_current_job, _job_cancelled, _progress, _result, cpc, cargs,
                   njobs, progress_by, result_by>>
    /\ UNCHANGED <<imageVars, sessionVars, mixVars, callVars, raceVars, lockVars>>

\* second block: return when cancelled, else publish progress 1.0 and the result
WorkerPublish(w) ==
    /\ wpc[w] = "publish"
    /\ IF _job_cancelled
       THEN /\ Goto(w, "done")
            /\ UNCHANGED <<_progress, _result, progress_by, result_by>>
       ELSE /\ _progress' = PROGRESS_DONE
            /\ _result' = wargs[w].mix.value
            /\ progress_by' = w
            /\ result_by' = w
            /\ Goto(w, "callback")
    /\ UNCHANGED <<_current_job, _job_cancelled, cpc, cargs, njobs>>
    /\ UNCHANGED <<imageVars, sessionVars, mixVars, callVars, raceVars, lockVars>>

\* `if callback: callback(result)`, still inside the try block: a callback
\* that raises is caught by the handler below
WorkerCallback(w) ==
    /\ wpc[w] = "callback"
    /\ GotoAfterCallback(w, IF wargs[w].callback = "raises" THEN "except"
                             ELSE "done")
    /\ UNCHANGED <<_current_job, _job_cancelled, _progress, _result, cpc, cargs,
                   njobs, progress_by, result_by>>
    /\ UNCHANGED <<imageVars, sessionVars, mixVars, callVars, raceVars, lockVars>>

\* except Exception: publish the error state (the flag is not looked at)
WorkerExcept(w) ==
    /\ wpc[w] = "except"
    /\ _progress' = PROGRESS_ERROR
    /\ _result' = NoResult
    /\ progress_by' = w
    /\ result_by' = w
    /\ Goto(w, "callback_error")
    /\ UNCHANGED <<_current_job, _job_cancelled, cpc, cargs, njobs>>
    /\ UNCHANGED <<imageVars, sessionVars, mixVars, callVars, raceVars, lockVars>>

\* `if callback: callback(None)` in the handler; the thread ends whether the
\* callback returns or raises
WorkerCallbackError(w) ==
    /\ wpc[w] = "callback_error"
    /\ GotoAfterCallback(w, "done")
    /\ UNCHANGED <<_current_job, _job_cancelled, _progress, _result, cpc, cargs,
                   njobs, progress_by, result_by>>
    /\ UNCHANGED <<imageVars, sessionVars, mixVars, callVars, raceVars, lockVars>>

WorkerStep(w) ==
    \/ WorkerBegin(w)
    \/ WorkerCompute(w)
    \/ WorkerPublish(w)
    \/ WorkerCallback(w)
    \/ WorkerExcept(w)
    \/ WorkerCallbackError(w)

\* ------------------------------------------- one ImageModel, two threads
\* A mutating thread calls load_from_contents and resize, a reading thread
\* calls get_data, on the same ImageModel.  A `with self._lock:` block is
\* taken statement by statement: the lock is acquired with the first step
\* and released with the last one.
Threads == {"mutator", "reader"}

\* contents passed to load_from_contents
ContentsPool == {Picture(P12), Picture(P21), Garbage}

\* shapes passed to resize
ShapePool == {<<1, 1>>, <<1, 2>>, <<2, 1>>}

\* component types passed to get_data
ComponentTypes == Kinds \cup {"raw", "hue"}

NoCall == [pixels |-> NoPixels, target_shape |-> NoShape, kind |-> None,
           snap |-> NoPixels]

NoGot == [kind |-> None, out |-> Raise(None), snap |-> NoPixels, raw |-> NoPixels,
          contended |-> FALSE, after_drop |-> FALSE]

ImageInit ==
    /\ image = NewImageModel
    /\ image_lock = "free"
    /\ tpc = [t \in Threads |-> "idle"]
    /\ targs = [t \in Threads |-> NoCall]
    /\ got = NoGot
    /\ dropped = FALSE

\* a lock that lets every thread in
lock_never_blocks(holder) == TRUE

\* threading.Lock: `with self._lock:` is entered when no thread holds the lock
lock_acquirable(holder) == holder = "free"

\* load_from_contents is called: the contents are decoded before the lock is
\* asked for; when decoding raises, the handler prints and the call returns
LoadCall(contents) ==
    /\ tpc["mutator"] = "idle"
    /\ IF Decode(contents).kind = "return"
       THEN /\ tpc' = [tpc EXCEPT !["mutator"] = "load_lock"]
            /\ targs' = [targs EXCEPT !["mutator"] =
                            [NoCall EXCEPT !.pixels = Decode(contents).value]]
       ELSE UNCHANGED <<tpc, targs>>
    /\ UNCHANGED <<image, image_lock, got, dropped>>
    /\ UNCHANGED <<jobVars, sessionVars, mixVars, callVars, raceVars, lockVars>>

\* with self._lock: raw and shape are assigned
LoadStore ==
    /\ tpc["mutator"] = "load_lock"
    /\ lock_acquirable(image_lock)
    /\ image_lock' = "mutator"
    /\ dropped' = (image.complex_arr # NoPixels)
    /\ image' = load_store(image, targs["mutator"].pixels)
    /\ tpc' = [tpc EXCEPT !["mutator"] = "load_reset"]
    /\ UNCHANGED <<targs, got>>
    /\ UNCHANGED <<jobVars, sessionVars, mixVars, callVars, raceVars, lockVars>>

\* self._reset_cache(), and the lock is released
LoadReset ==
    /\ tpc["mutator"] = "load_reset"
    /\ image' = _reset_cache(image)
    /\ image_lock' = "free"
    /\ tpc' = [tpc EXCEPT !["mutator"] = "idle"]
    /\ targs' = [targs EXCEPT !["mutator"] = NoCall]
    /\ UNCHANGED <<got, dropped>>
    /\ UNCHANGED <<jobVars, sessionVars, mixVars, callVars, raceVars, lockVars>>

\* resize is called
ResizeCall(target_shape) ==
    /\ tpc["mutator"] = "idle"
    /\ tpc' = [tpc EXCEPT !["mutator"] = "resize_lock"]
    /\ targs' = [targs EXCEPT !["mutator"] =
                    [NoCall EXCEPT !.target_shape = target_shape]]
    /\ UNCHANGED <<image, image_lock, got, dropped>>
    /\ UNCHANGED <<jobVars, sessionVars, mixVars, callVars, raceVars, lockVars>>

\* with self._lock: return when nothing is loaded, else raw and shape are
\* assigned
ResizeStore ==
    /\ tpc["mutator"] = "resize_lock"
    /\ lock_acquirable(image_lock)
    /\ IF image.raw = NoPixels
       THEN /\ tpc' = [tpc EXCEPT !["mutator"] = "idle"]
            /\ targs' = [targs EXCEPT !["mutator"] = NoCall]
            /\ UNCHANGED <<image, image_lock, dropped>>
       ELSE /\ image_lock' = "mutator"
            /\ dropped' = (image.complex_arr # NoPixels)
            /\ image' = resize_store(image, targs["mutator"].target_shape)
            /\ tpc' = [tpc EXCEPT !["mutator"] = "resize_reset"]
            /\ UNCHANGED targs
    /\ UNCHANGED got
    /\ UNCHANGED <<jobVars, sessionVars, mixVars, callVars, raceVars, lockVars>>

\* self._reset_cache(), and the lock is released
ResizeReset ==
    /\ tpc["mutator"] = "resize_reset"
    /\ image' = _reset_cache(image)
    /\ image_lock' = "free"
    /\ tpc' = [tpc EXCEPT !["mutator"] = "idle"]
    /\ targs' = [targs EXCEPT !["mutator"] = NoCall]
    /\ UNCHANGED <<got, dropped>>
    /\ UNCHANGED <<jobVars, sessionVars, mixVars, callVars, raceVars, lockVars>>

\* get_data is called
GetCall(component_type) ==
    /\ tpc["reader"] = "idle"
    /\ tpc' = [tpc EXCEPT !["reader"] = "get_lock"]
    /\ targs' = [targs EXCEPT !["reader"] = [NoCall EXCEPT !.kind = component_type]]
    /\ UNCHANGED <<image, image_lock, got, dropped>>
    /\ UNCHANGED <<jobVars, sessionVars, mixVars, callVars, raceVars, lockVars>>

\* the get_data call of the reader ends with outcome `out`
GetEnds(out) ==
    /\ got' = [kind |-> targs["reader"].kind,
               out |-> out,
               snap |-> IF tpc["reader"] = "get_lock" THEN image.raw
                        ELSE targs["reader"].snap,
               raw |-> image.raw,
               contended |-> tpc["mutator"] \in {"load_lock", "resize_lock"},
               after_drop |-> dropped]
    /\ tpc' = [tpc EXCEPT !["reader"] = "idle"]
    /\ targs' = [targs EXCEPT !["reader"] = NoCall]

\* with self._lock: raise when nothing is loaded, return a copy of raw for
\* 'raw', else compute the transform unless it is there
GetTransform ==
    /\ tpc["reader"] = "get_lock"
    /\ lock_acquirable(image_lock)
    /\ IF image.raw = NoPixels
       THEN /\ GetEnds(Raise("No image data loaded"))
            /\ UNCHANGED <<image, image_lock>>
       ELSE IF targs["reader"].kind = "raw"
       THEN /\ GetEnds(Return(image.raw))
            /\ UNCHANGED <<image, image_lock>>
       ELSE /\ image_lock' = "reader"
            /\ image' = get_data_transform(image)
            /\ tpc' = [tpc EXCEPT !["reader"] = "get_fill"]
            /\ targs' = [targs EXCEPT !["reader"].snap = image.raw]
            /\ UNCHANGED got
    /\ UNCHANGED dropped
    /\ UNCHANGED <<jobVars, sessionVars, mixVars, callVars, raceVars, lockVars>>

\* the cache of the component is filled unless it is there, a copy of it is
\* returned (an unknown component type raises), and the lock is released
GetFill ==
    /\ tpc["reader"] = "get_fill"
    /\ IF targs["reader"].kind \in Kinds
       THEN /\ image' = get_data_fill(image, targs["reader"].kind)
            /\ GetEnds(Return(Cached(image', targs["reader"].kind)))
       ELSE /\ GetEnds(Raise("Unknown component type"))
            /\ UNCHANGED image
    /\ image_lock' = "free"
    /\ UNCHANGED dropped
    /\ UNCHANGED <<jobVars, sessionVars, mixVars, callVars, raceVars, lockVars>>

ImageNext ==
    \/ \E contents \in ContentsPool : LoadCall(contents)
    \/ LoadStore
    \/ LoadReset
    \/ \E target_shape \in ShapePool : ResizeCall(target_shape)
    \/ ResizeStore
    \/ ResizeReset
    \/ \E component_type \in ComponentTypes : GetCall(component_type)
    \/ GetTransform
    \/ GetFill

\* ------------------------------------- Controller and GlobalSessionState
\* GlobalSessionState._images is a dict: a sequence of entries [index, image]
\* in insertion order.  The calls of the controller run on one thread, one at
\* a time.
\* the four image slots of the interface
Slots == 0..3

\* the slots that the registry is explored with
RegistrySlots == {0, 1, 2}

\* contents passed to handle_upload
UploadPool == {Picture(P22), Picture(P12), Garbage}

\* slider values passed to handle_slider_update, in tenths (-0.1 and 1.1 are
\* out of range), and the slots whose sliders are moved
SliderValues == {0 - 1, 0, 10, 11}
SliderSlots == {0, 1}

NoEntry == [index |-> 0 - 1, image |-> NewImageModel]

NoCallYet == [op |-> None, status |-> None]

\* Controller.__init__ and GlobalSessionState.__init__
SessionInit ==
    /\ _images = <<>>
    /\ _min_shape = NoShape
    /\ _weights_comp1 = [k \in Slots |-> 0]
    /\ _weights_comp2 = [k \in Slots |-> 0]
    /\ _mode = "mag_phase"
    /\ _current_mask = NoMask
    /\ job_inputs = NoInputs
    /\ uploaded = [k \in Slots |-> NoShape]
    /\ last_call = NoCallYet

\* `index in self._images`
HasImage(images, index) == \E p \in 1..Len(images) : images[p].index = index

\* self._images[index] = image_model: a present key keeps its position
store_image(images, index, image_model) ==
    IF HasImage(images, index)
    THEN [p \in 1..Len(images) |->
             IF images[p].index = index
             THEN [index |-> index, image |-> image_model] ELSE images[p]]
    ELSE Append(images, [index |-> index, image |-> image_model])

\* self._images.get(index)
get_image(images, index) ==
    IF HasImage(images, index)
    THEN CHOOSE e \in {images[p] : p \in 1..Len(images)} : e.index = index
    ELSE NoEntry

\* list(self._images.values())
get_all_images(images) == [p \in 1..Len(images) |-> images[p].image]

get_min_shape == _min_shape

RECURSIVE Without(_, _)
\* del self._images[index]
Without(images, index) ==
    IF images = <<>> THEN <<>>
    ELSE IF Head(images).index = index THEN Tail(images)
    ELSE <<Head(images)>> \o Without(Tail(images), index)

\* remove_image: the registry and the common shape afterwards
remove_image(images, min_shape, index) ==
    IF ~HasImage(images, index)
    THEN [images |-> images, min_shape |-> min_shape]
    ELSE [images |-> Without(images, index),
          min_shape |-> IF Without(images, index) = <<>> THEN NoShape
                        ELSE min_shape]

\* ImageModel has no attribute _original_raw_pixels: nothing assigns it
_original_raw_pixels(img) == NoPixels

\* the shape _find_min_dimensions unpacks for one image
DimensionsOf(img) ==
    IF _original_raw_pixels(img) # NoPixels
    THEN Shape(_original_raw_pixels(img))
    ELSE img.shape

\* _find_min_dimensions of a non-empty list: `h, w = img.shape` raises for
\* the shape () of an ImageModel that nothing was loaded into
_find_min_dimensions(images) ==
    IF \E p \in 1..Len(images) : Len(DimensionsOf(images[p])) # 2
    THEN Raise("not enough values to unpack")
    ELSE Return(<<SetMin({DimensionsOf(images[p])[1] : p \in 1..Len(images)}),
                  SetMin({DimensionsOf(images[p])[2] : p \in 1..Len(images)})>>)

\* enforce_unified_size: the registry and the common shape afterwards, and
\* the outcome of the call
enforce_unified_size(images, min_shape) ==
    IF Len(images) = 0
    THEN [images |-> images, min_shape |-> min_shape, out |-> Return(NoShape)]
    ELSE LET unify(found) ==
                 IF found.kind = "raise"
                 THEN [images |-> images, min_shape |-> min_shape, out |-> found]
                 ELSE [images |-> [p \in 1..Len(images) |->
                                      IF images[p].image.shape # found.value
                                      THEN [images[p] EXCEPT
                                               !.image = resize(@, found.value)]
                                      ELSE images[p]],
                       min_shape |-> found.value,
                       out |-> Return(found.value)]
         IN unify(_find_min_dimensions(get_all_images(images)))

\* no call of the controller is in progress
ControllerIdle == job_inputs = NoInputs

\* handle_upload(contents, index) with the default ft_component; uploads with
\* contents None return an error before anything is created
handle_upload(contents, index) ==
    LET answer(stored, unified, shown_raw, shown_ft) ==
            IF unified.out.kind = "raise"
            THEN [images |-> stored, min_shape |-> _min_shape, status |-> "error"]
            ELSE IF shown_raw.out.kind = "raise" \/ shown_ft.out.kind = "raise"
            THEN [images |-> unified.images, min_shape |-> unified.min_shape,
                  status |-> "error"]
            ELSE [images |-> store_image(unified.images, index, shown_ft.image),
                  min_shape |-> unified.min_shape, status |-> "success"]
        show_ft(stored, unified, shown_raw) ==
            answer(stored, unified, shown_raw,
                   get_visual_data(shown_raw.image, "magnitude"))
        show_raw(stored, unified) ==
            show_ft(stored, unified,
                    get_visual_data(get_image(unified.images, index).image, "raw"))
        unify(stored) == show_raw(stored, enforce_unified_size(stored, _min_shape))
    IN unify(store_image(_images, index,
                         load_from_contents(NewImageModel, contents)))

HandleUpload(contents, index) ==
    /\ ControllerIdle
    /\ LET ends(done) ==
               /\ _images' = done.images
               /\ _min_shape' = done.min_shape
               /\ last_call' = [op |-> "handle_upload", status |-> done.status]
       IN ends(handle_upload(contents, index))
    /\ uploaded' = [uploaded EXCEPT ![index] = Shape(contents.pixels)]
    /\ UNCHANGED <<_weights_comp1, _weights_comp2, _mode, _current_mask, job_inputs>>
    /\ UNCHANGED <<jobVars, imageVars, mixVars, callVars, raceVars, lockVars>>

\* GlobalSessionState.remove_image(index)
RemoveImage(index) ==
    /\ ControllerIdle
    /\ _images' = remove_image(_images, _min_shape, index).images
    /\ _min_shape' = remove_image(_images, _min_shape, index).min_shape
    /\ uploaded' = [uploaded EXCEPT ![index] = NoShape]
    /\ last_call' = [op |-> "remove_image", status |-> "success"]
    /\ UNCHANGED <<_weights_comp1, _weights_comp2, _mode, _current_mask, job_inputs>>
    /\ UNCHANGED <<jobVars, imageVars, mixVars, callVars, raceVars, lockVars>>

\* UnitUnificator.enforce_unified_size(session) called on its own
EnforceUnifiedSize ==
    /\ ControllerIdle
    /\ LET ends(done) ==
               /\ _images' = done.images
               /\ _min_shape' = done.min_shape
               /\ last_call' = [op |-> "enforce_unified_size",
                                status |-> IF done.out.kind = "return"
                                           THEN "success" ELSE "error"]
       IN ends(enforce_unified_size(_images, _min_shape))
    /\ UNCHANGED <<_weights_comp1, _weights_comp2, _mode, _current_mask, job_inputs,
                   uploaded>>
    /\ UNCHANGED <<jobVars, imageVars, mixVars, callVars, raceVars, lockVars>>

\* a variant of handle_slider_update that leaves the other group's weight
HandleSliderUpdateKeepsOther(val, index, component_group) ==
    /\ ControllerIdle
    /\ IF val < 0 \/ val > 10
       THEN /\ UNCHANGED <<_weights_comp1, _weights_comp2>>
            /\ last_call' = [op |-> "handle_slider_update", status |-> "error"]
       ELSE /\ IF component_group = "comp1"
               THEN /\ _weights_comp1' = [_weights_comp1 EXCEPT ![index] = val]
                    /\ UNCHANGED _weights_comp2
               ELSE /\ _weights_comp2' = [_weights_comp2 EXCEPT ![index] = val]
                    /\ UNCHANGED _weights_comp1
            /\ last_call' = [op |-> "handle_slider_update", status |-> "success"]
    /\ UNCHANGED <<_images, _min_shape, _mode, _current_mask, job_inputs, uploaded>>
    /\ UNCHANGED <<jobVars, imageVars, mixVars, callVars, raceVars, lockVars>>

\* a variant of handle_slider_update that stores any value
HandleSliderUpdateUnchecked(val, index, component_group) ==
    /\ ControllerIdle
    /\ IF component_group = "comp1"
       THEN /\ _weights_comp1' = [_weights_comp1 EXCEPT ![index] = val]
            /\ _weights_comp2' = [_weights_comp2 EXCEPT ![index] = 0]
       ELSE /\ _weights_comp2' = [_weights_comp2 EXCEPT ![index] = val]
            /\ _weights_comp1' = [_weights_comp1 EXCEPT ![index] = 0]
    /\ last_call' = [op |-> "handle_slider_update", status |-> "success"]
    /\ UNCHANGED <<_images, _min_shape, _mode, _current_mask, job_inputs, uploaded>>
    /\ UNCHANGED <<jobVars, imageVars, mixVars, callVars, raceVars, lockVars>>

\* handle_slider_update(val, index, component_group), val in tenths
HandleSliderUpdate(val, index, component_group) ==
    /\ ControllerIdle
    /\ IF val < 0 \/ val > 10
       THEN /\ UNCHANGED <<_weights_comp1, _weights_comp2>>
            /\ last_call' = [op |-> "handle_slider_update", status |-> "error"]
       ELSE /\ IF component_group = "comp1"
               THEN /\ _weights_comp1' = [_weights_comp1 EXCEPT ![index] = val]
                    /\ _weights_comp2' = [_weights_comp2 EXCEPT ![index] = 0]
               ELSE /\ _weights_comp2' = [_weights_comp2 EXCEPT ![index] = val]
                    /\ _weights_comp1' = [_weights_comp1 EXCEPT ![index] = 0]
            /\ last_call' = [op |-> "handle_slider_update", status |-> "success"]
    /\ UNCHANGED <<_images, _min_shape, _mode, _current_mask, job_inputs, uploaded>>
    /\ UNCHANGED <<jobVars, imageVars, mixVars, callVars, raceVars, lockVars>>

\* update_mixing_mode(mode)
UpdateMixingMode(mode) ==
    /\ ControllerIdle
    /\ _mode' = IF mode \in {"mag_phase", "real_imag"} THEN mode ELSE _mode
    /\ last_call' = [op |-> "update_mixing_mode", status |-> "success"]
    /\ UNCHANGED <<_images, _min_shape, _weights_comp1, _weights_comp2,
                   _current_mask, job_inputs, uploaded>>
    /\ UNCHANGED <<jobVars, imageVars, mixVars, callVars, raceVars, lockVars>>

\* Controller.start_mixing_job up to the call of the job manager: return when
\* no image is stored, else build the inputs dictionary
ControllerStartMixingJob ==
    /\ ControllerIdle
    /\ IF Len(get_all_images(_images)) = 0
       THEN /\ UNCHANGED job_inputs
            /\ last_call' = [op |-> "start_mixing_job", status |-> "no images"]
       ELSE /\ job_inputs' = [mode |-> _mode,
                              weights1 |-> _weights_comp1,
                              weights2 |-> _weights_comp2,
                              images |-> get_all_images(_images),
                              mask |-> _current_mask]
            /\ last_call' = [op |-> "start_mixing_job", status |-> "success"]
    /\ UNCHANGED <<_images, _min_shape, _weights_comp1, _weights_comp2, _mode,
                   _current_mask, uploaded>>
    /\ UNCHANGED <<jobVars, imageVars, mixVars, callVars, raceVars, lockVars>>

\* self._job_manager.start_mixing_job(inputs, callback=None): the dictionary
\* goes to the job manager and the call returns
ControllerJobSubmitted ==
    /\ ~ControllerIdle
    /\ job_inputs' = NoInputs
    /\ UNCHANGED <<_images, _min_shape, _weights_comp1, _weights_comp2, _mode,
                   _current_mask, uploaded, last_call>>
    /\ UNCHANGED <<jobVars, imageVars, mixVars, callVars, raceVars, lockVars>>

\* rectangles passed to apply_region_mask: none, one cell, a 2x2 corner
RegionRects == {NoRect, <<0, 0, 0, 0>>, <<0, 0, 1, 1>>}

\* apply_region_mask(rect_coords, is_inner): return when the registry has no
\* common shape, else the mask of the common shape becomes the current mask
ApplyRegionMask(rect_coords, is_inner) ==
    /\ ControllerIdle
    /\ _current_mask' = IF get_min_shape = NoShape THEN _current_mask
                        ELSE create_mask(get_min_shape, rect_coords, is_inner)
    /\ last_call' = [op |-> "apply_region_mask", status |-> "success"]
    /\ UNCHANGED <<_images, _min_shape, _weights_comp1, _weights_comp2, _mode,
                   job_inputs, uploaded>>
    /\ UNCHANGED <<jobVars, imageVars, mixVars, callVars, raceVars, lockVars>>

\* the controller with a region: uploads, masks and the start of a mix
RegionNext ==
    \/ \E contents \in UploadPool, index \in RegistrySlots :
          HandleUpload(contents, index)
    \/ \E rect_coords \in RegionRects, is_inner \in BOOLEAN :
          ApplyRegionMask(rect_coords, is_inner)
    \/ ControllerStartMixingJob
    \/ ControllerJobSubmitted

\* the registry: uploads, removals and size unification
SessionNext ==
    \/ \E contents \in UploadPool, index \in RegistrySlots :
          HandleUpload(contents, index)
    \/ \E index \in RegistrySlots : RemoveImage(index)
    \/ EnforceUnifiedSize

\* the controller: uploads of one picture, removals, sliders, mode and the
\* start of a mix
ControllerNext ==
    \/ \E index \in Slots : HandleUpload(Picture(P12), index)
    \/ \E index \in Slots : RemoveImage(index)
    \/ \E val \in SliderValues, index \in SliderSlots,
          component_group \in {"comp1", "comp2"} :
          HandleSliderUpdate(val, index, component_group)
    \/ \E mode \in {"mag_phase", "real_imag"} : UpdateMixingMode(mode)
    \/ ControllerStartMixingJob
    \/ ControllerJobSubmitted

\* ------------------------------------------------------- one call of a mix
\* One of the three mixes of MixerEngine is called once with arguments drawn
\* from the sets below.
ImgA == load_from_contents(NewImageModel, Picture(P12))
ImgB == load_from_contents(NewImageModel, Picture(P12b))
Img14 == load_from_contents(NewImageModel, Picture(P14))

Mask12b == <<<<0, 1>>>>
Mask14 == <<<<1, 1, 0, 0>>>>

\* a weight mapping with the four keys of the controller, in tenths
Weights(w0, w1, w2, w3) == (0 :> w0) @@ (1 :> w1) @@ (2 :> w2) @@ (3 :> w3)

MixWeights == {Weights(0, 0, 0, 0), Weights(10, 0, 0, 0), Weights(5, 5, 0, 0),
               Weights(0, 10, 0, 0), Weights(10, 0, 0, 10)}

\* image lists: empty, one or two loaded images of one shape, an image that
\* nothing was loaded into
MagPhaseLists == {<<>>, <<ImgA>>, <<ImgA, ImgB>>, <<ImgB, ImgA>>, <<Image22>>,
                  <<NewImageModel>>}

\* the 1x4 picture has a transform with imaginary parts; its phase takes
\* four values, so it is mixed by real and imaginary part only
RealImagLists == MagPhaseLists \cup {<<Img14>>}

MixMasks == {NoMask, Mask12, Mask12b, Mask22, Mask14}

MixFunctions == {"mix_images_mag_phase", "mix_images_real_imag", "mix_images_unified"}

\* the mode argument of mix_images_unified ("hsv" is no mode)
MixModes == {"mag_phase", "real_imag", "hsv"}

MixCalls ==
    {c \in [fn : MixFunctions, mode : MixModes \cup {None},
            sources1 : MixWeights, sources2 : MixWeights,
            images : RealImagLists, mask : MixMasks] :
        /\ (c.mode = None) <=> (c.fn # "mix_images_unified")
        /\ (c.fn = "mix_images_mag_phase" \/ c.mode \in {"mag_phase", "hsv"})
              => c.images \in MagPhaseLists}

NoMixArgs == [fn |-> None, mode |-> None, sources1 |-> Weights(0, 0, 0, 0),
              sources2 |-> Weights(0, 0, 0, 0), images |-> <<>>, mask |-> NoMask]

NotCalled == [kind |-> None]

NoInputsAfter == [sources1 |-> Weights(0, 0, 0, 0), sources2 |-> Weights(0, 0, 0, 0),
                  images |-> <<>>, mask |-> NoMask]

\* no mix is being called
\* no function has been called
NoCallArgs == [fn |-> None]
CallIdle ==
    /\ call_args = NoCallArgs
    /\ call_out = NotCalled

MixIdle ==
    /\ mix_args = NoMixArgs
    /\ mix_out = NotCalled
    /\ mix_after = NoInputsAfter

\* a mix is about to be called
MixInit ==
    /\ mix_args \in MixCalls
    /\ mix_out = NotCalled
    /\ mix_after = NoInputsAfter

CallMagPhase ==
    /\ mix_out.kind = None
    /\ mix_args.fn = "mix_images_mag_phase"
    /\ mix_out' = mix_images_mag_phase(mix_args.sources1, mix_args.sources2,
                                       mix_args.images, mix_args.mask)
    /\ mix_after' = InputsAfterMix("mag_phase", mix_args.sources1, mix_args.sources2,
                                   mix_args.images, mix_args.mask)
    /\ UNCHANGED mix_args
    /\ UNCHANGED <<jobVars, imageVars, sessionVars, callVars, raceVars, lockVars>>

CallRealImag ==
    /\ mix_out.kind = None
    /\ mix_args.fn = "mix_images_real_imag"
    /\ mix_out' = mix_images_real_imag(mix_args.sources1, mix_args.sources2,
                                       mix_args.images, mix_args.mask)
    /\ mix_after' = InputsAfterMix("real_imag", mix_args.sources1, mix_args.sources2,
                                   mix_args.images, mix_args.mask)
    /\ UNCHANGED mix_args
    /\ UNCHANGED <<jobVars, imageVars, sessionVars, callVars, raceVars, lockVars>>

CallUnified ==
    /\ mix_out.kind = None
    /\ mix_args.fn = "mix_images_unified"
    /\ mix_out' = mix_images_unified(mix_args.mode, mix_args.sources1,
                                     mix_args.sources2, mix_args.images,
                                     mix_args.mask)
    /\ mix_after' = InputsAfterUnified(mix_args.mode, mix_args.sources1,
                                       mix_args.sources2, mix_args.images,
                                       mix_args.mask)
    /\ UNCHANGED mix_args
    /\ UNCHANGED <<jobVars, imageVars, sessionVars, callVars, raceVars, lockVars>>

MixNext ==
    \/ CallMagPhase
    \/ CallRealImag
    \/ CallUnified

\* ------------------------------------------------- one call of create_mask
MaskShapes == (1..MaxSide) \X (1..MaxSide)

Coords == (0 - 1)..MaxCoord

\* rectangles (x1, y1, x2, y2), in and out of range, ordered and reversed,
\* and no rectangle
Rects == (Coords \X Coords \X Coords \X Coords) \cup {NoRect}

MaskCalls ==
    [fn : {"create_mask"}, shape : MaskShapes, rect_coords : Rects,
     is_inner : BOOLEAN]

\* create_mask is about to be called
MaskInit ==
    /\ call_args \in MaskCalls
    /\ call_out = NotCalled

CreateMask ==
    /\ call_out.kind = None
    /\ call_args.fn = "create_mask"
    /\ call_out' = Return(create_mask(call_args.shape, call_args.rect_coords,
                                       call_args.is_inner))
    /\ UNCHANGED call_args
    /\ UNCHANGED <<jobVars, imageVars, sessionVars, mixVars, raceVars, lockVars>>

MaskNext == CreateMask

\* ------------------------------------- one ImageModel, one call at a time
\* One thread calls load_from_contents, resize, get_data and get_visual_data
\* on an ImageModel, each call as a whole.  call_args keeps the call, the
\* image before it, and the call before it with its outcome.
CallContents == {Picture(P12b), Picture(P22), Garbage}

NoPrevious == [fn |-> None, kind |-> None, out |-> NotCalled]

ImageCall(fn, kind, contents, target_shape) ==
    [fn |-> fn, kind |-> kind, contents |-> contents,
     target_shape |-> target_shape, before |-> image,
     previous |-> IF call_args.fn = None THEN NoPrevious
                  ELSE [fn |-> call_args.fn, kind |-> call_args.kind,
                        out |-> call_out]]

ImageCallInit ==
    /\ call_args = NoCallArgs
    /\ call_out = NotCalled

\* load_from_contents returns None, whether or not the contents decode: the
\* except clause prints the error and falls off the end of the function
CallLoadFromContents(contents) ==
    /\ call_args' = ImageCall("load_from_contents", None, contents, NoShape)
    /\ image' = load_from_contents(image, contents)
    /\ call_out' = Return(None)
    /\ UNCHANGED <<image_lock, tpc, targs, got, dropped>>
    /\ UNCHANGED <<jobVars, sessionVars, mixVars, raceVars, lockVars>>

CallResize(target_shape) ==
    /\ call_args' = ImageCall("resize", None, Garbage, target_shape)
    /\ image' = resize(image, target_shape)
    /\ call_out' = Return(None)
    /\ UNCHANGED <<image_lock, tpc, targs, got, dropped>>
    /\ UNCHANGED <<jobVars, sessionVars, mixVars, raceVars, lockVars>>

CallGetData(component_type) ==
    /\ call_args' = ImageCall("get_data", component_type, Garbage, NoShape)
    /\ image' = get_data(image, component_type).image
    /\ call_out' = get_data(image, component_type).out
    /\ UNCHANGED <<image_lock, tpc, targs, got, dropped>>
    /\ UNCHANGED <<jobVars, sessionVars, mixVars, raceVars, lockVars>>

CallGetVisualData(component_type) ==
    /\ call_args' = ImageCall("get_visual_data", component_type, Garbage, NoShape)
    /\ image' = get_visual_data(image, component_type).image
    /\ call_out' = get_visual_data(image, component_type).out
    /\ UNCHANGED <<image_lock, tpc, targs, got, dropped>>
    /\ UNCHANGED <<jobVars, sessionVars, mixVars, raceVars, lockVars>>

ImageCallNext ==
    \/ \E contents \in CallContents : CallLoadFromContents(contents)
    \/ \E target_shape \in ShapePool : CallResize(target_shape)
    \/ \E component_type \in ComponentTypes : CallGetData(component_type)
    \/ \E component_type \in ComponentTypes : CallGetVisualData(component_type)

\* ------------------------------------- an upload while a mix is running
\* The worker's mix holds the ImageModel objects that the registry holds
\* (get_all_images hands out the objects, start_mixing_job passes the list
\* on): it reads them while handle_upload, on the control thread, resizes
\* them.  An object is named by the slot it was stored in; slots are filled
\* once here, so that a slot names one object.  resize and get_visual_data
\* each run under the ImageModel's lock and are one step each; `image.shape`
\* is read without the lock.
RacePool == {Picture(P22), Picture(P12)}

RaceSlots == {0, 1}

NoUpload == [pc |-> "idle", index |-> 0, slots |-> <<>>, next |-> 0]

NoMixRun == [pc |-> "none", slots |-> <<>>, shape |-> NoShape, next |-> 0,
             sources1 |-> Weights(0, 0, 0, 0), sources2 |-> Weights(0, 0, 0, 0),
             mode |-> None, mixed1 |-> NoShape, mixed2 |-> NoShape,
             reads |-> <<>>, out |-> NotCalled]

RaceIdle ==
    /\ upload = NoUpload
    /\ mixrun = NoMixRun

\* the ImageModel object stored in `slot`
Object(slot) == get_image(_images, slot).image

\* the registry with the object of `slot` in the state `image_model`
WithObject(slot, image_model) == store_image(_images, slot, image_model)

\* handle_upload up to store_image: a new ImageModel is loaded and stored;
\* enforce_unified_size takes the list of the objects stored
RaceUploadStore(contents, index) ==
    /\ upload.pc = "idle"
    /\ ~HasImage(_images, index)
    /\ _images' = store_image(_images, index,
                              load_from_contents(NewImageModel, contents))
    /\ upload' = [pc |-> "unify", index |-> index,
                  slots |-> [p \in 1..Len(_images') |-> _images'[p].index],
                  next |-> 1]
    /\ uploaded' = [uploaded EXCEPT ![index] = Shape(contents.pixels)]
    /\ UNCHANGED <<_min_shape, _weights_comp1, _weights_comp2, _mode,
                   _current_mask, job_inputs, last_call, mixrun>>
    /\ UNCHANGED <<jobVars, imageVars, mixVars, callVars, lockVars>>

\* min_shape = self._find_min_dimensions(images); state.update_min_shape
RaceUnify ==
    /\ upload.pc = "unify"
    /\ LET found == _find_min_dimensions(get_all_images(_images))
       IN IF found.kind = "raise"
          THEN /\ upload' = NoUpload
               /\ last_call' = [op |-> "handle_upload", status |-> "error"]
               /\ UNCHANGED _min_shape
          ELSE /\ _min_shape' = found.value
               /\ upload' = [upload EXCEPT !.pc = "resize"]
               /\ UNCHANGED last_call
    /\ UNCHANGED <<_images, _weights_comp1, _weights_comp2, _mode, _current_mask,
                   job_inputs, uploaded, mixrun>>
    /\ UNCHANGED <<jobVars, imageVars, mixVars, callVars, lockVars>>

\* one turn of `for image in images: if image.shape != min_shape:
\* image.resize(min_shape)`
RaceResize ==
    /\ upload.pc = "resize"
    /\ _images' = IF Object(upload.slots[upload.next]).shape # _min_shape
                  THEN WithObject(upload.slots[upload.next],
                                  resize(Object(upload.slots[upload.next]),
                                         _min_shape))
                  ELSE _images
    /\ upload' = [upload EXCEPT !.next = @ + 1,
                                !.pc = IF upload.next = Len(upload.slots)
                                       THEN "show" ELSE "resize"]
    /\ UNCHANGED <<_min_shape, _weights_comp1, _weights_comp2, _mode,
                   _current_mask, job_inputs, uploaded, last_call, mixrun>>
    /\ UNCHANGED <<jobVars, imageVars, mixVars, callVars, lockVars>>

\* the two get_visual_data calls on the new image, and the answer
RaceShow ==
    /\ upload.pc = "show"
    /\ LET shown(raw) == get_visual_data(raw.image, "magnitude")
       IN _images' = WithObject(upload.index,
                         shown(get_visual_data(Object(upload.index), "raw")).image)
    /\ upload' = NoUpload
    /\ last_call' = [op |-> "handle_upload", status |-> "success"]
    /\ UNCHANGED <<_min_shape, _weights_comp1, _weights_comp2, _mode,
                   _current_mask, job_inputs, uploaded, mixrun>>
    /\ UNCHANGED <<jobVars, imageVars, mixVars, callVars, lockVars>>

\* Controller.start_mixing_job between two calls of the control thread, up
\* to the start of the worker thread; one job at a time is followed
RaceStartJob ==
    /\ upload.pc = "idle"
    /\ mixrun.pc \in {"none", "done"}
    /\ _images # <<>>
    /\ mixrun' = [NoMixRun EXCEPT
                     !.pc = "shape",
                     !.slots = [p \in 1..Len(_images) |-> _images[p].index],
                     !.sources1 = _weights_comp1, !.sources2 = _weights_comp2,
                     !.mode = _mode]
    /\ last_call' = [op |-> "start_mixing_job", status |-> "success"]
    /\ UNCHANGED <<_images, _min_shape, _weights_comp1, _weights_comp2, _mode,
                   _current_mask, job_inputs, uploaded, upload>>
    /\ UNCHANGED <<jobVars, imageVars, mixVars, callVars, lockVars>>

\* `shape = images[0].shape`
MixShape ==
    /\ mixrun.pc = "shape"
    /\ mixrun' = [mixrun EXCEPT !.pc = "first", !.next = 1,
                                !.shape = Object(mixrun.slots[1]).shape,
                                !.mixed1 = Object(mixrun.slots[1]).shape,
                                !.mixed2 = Object(mixrun.slots[1]).shape]
    /\ UNCHANGED upload
    /\ UNCHANGED <<jobVars, imageVars, sessionVars, mixVars, callVars, lockVars>>

\* numpy's rule for `a += b`: b is stretched to the shape of a where b has
\* length 1, and refused otherwise
BroadcastsTo(b, a) ==
    /\ Len(a) = Len(b)
    /\ \A d \in 1..Len(a) : b[d] = a[d] \/ b[d] = 1

\* the mix is over: it returned or raised
MixOver(run, out) == [run EXCEPT !.pc = "done", !.out = out]

\* one get_visual_data of a mixing loop, or the one of its else branch, for
\* the component `kind` weighted by `sources`; `then` is where the mix goes
\* on after the loop
MixReadStep(sources, kind, then) ==
    LET p == mixrun.next
        slot == mixrun.slots[IF SumWeights(sources) > 0 THEN p ELSE 1]
        got_visual == get_visual_data(Object(slot), kind)
        read == [kind |-> kind, slot |-> slot,
                 shape |-> Shape(got_visual.out.value)]
        last == SumWeights(sources) = 0 \/ p = Len(mixrun.slots)
        goes_on == [mixrun EXCEPT !.reads = Append(@, read),
                                  !.next = IF last THEN 1 ELSE p + 1,
                                  !.pc = IF last THEN then ELSE @]
    IN /\ _images' = WithObject(slot, got_visual.image)
       /\ mixrun' =
             IF got_visual.out.kind = "raise" THEN MixOver(mixrun, got_visual.out)
             ELSE IF SumWeights(sources) = 0
             THEN IF kind \in {"magnitude", "real"}
                  THEN [goes_on EXCEPT !.mixed1 = read.shape]
                  ELSE [goes_on EXCEPT !.mixed2 = read.shape]
             ELSE IF ~BroadcastsTo(read.shape, mixrun.shape)
             THEN MixOver(mixrun, Raise("operands could not be broadcast together"))
             ELSE goes_on

\* the first component's loop, one image at a time
MixReadFirst ==
    /\ mixrun.pc = "first"
    /\ MixReadStep(mixrun.sources1, FirstKind(mixrun.mode), "second")
    /\ UNCHANGED <<_min_shape, _weights_comp1, _weights_comp2, _mode,
                   _current_mask, job_inputs, uploaded, last_call, upload>>
    /\ UNCHANGED <<jobVars, imageVars, mixVars, callVars, lockVars>>

\* the second component's loop
MixReadSecond ==
    /\ mixrun.pc = "second"
    /\ MixReadStep(mixrun.sources2, SecondKind(mixrun.mode), "rebuild")
    /\ UNCHANGED <<_min_shape, _weights_comp1, _weights_comp2, _mode,
                   _current_mask, job_inputs, uploaded, last_call, upload>>
    /\ UNCHANGED <<jobVars, imageVars, mixVars, callVars, lockVars>>

\* the spectrum is rebuilt from the two mixed components (no mask is set in
\* these runs) and inverted: the product or sum of two arrays stretches the
\* one to the other or is refused
MixRebuild ==
    /\ mixrun.pc = "rebuild"
    /\ mixrun' = MixOver(mixrun,
                     IF BroadcastsTo(mixrun.mixed1, mixrun.mixed2)
                        \/ BroadcastsTo(mixrun.mixed2, mixrun.mixed1)
                     THEN Return(None)
                     ELSE Raise("operands could not be broadcast together"))
    /\ UNCHANGED upload
    /\ UNCHANGED <<jobVars, imageVars, sessionVars, mixVars, callVars, lockVars>>

\* the weights the runs are started with: slot 0's slider moved to 1.0
RaceSlider(component_group) ==
    /\ upload.pc = "idle"
    /\ HandleSliderUpdate(10, 0, component_group)

RaceNext ==
    \/ \E contents \in RacePool, index \in RaceSlots :
          RaceUploadStore(contents, index)
    \/ RaceUnify
    \/ RaceResize
    \/ RaceShow
    \/ \E component_group \in {"comp1", "comp2"} : RaceSlider(component_group)
    \/ RaceStartJob
    \/ MixShape
    \/ MixReadFirst
    \/ MixReadSecond
    \/ MixRebuild

\* --------------------------------------------- the threads, lock by lock
\* The control thread (start_mixing_job, cancel_current_job, the polls
\* get_progress and get_result, and the ImageModel calls of handle_upload)
\* and the worker threads, with every `with lock:` block split into the wait
\* for the lock and the block itself, which releases the lock at its end.
\* AsyncJobManager._lock is _lock, the lock of an ImageModel handed to the
\* mix is image_lock.  Only the cancel flag is followed of what the blocks
\* write; whether a mix reads again, returns or raises, and whether a
\* callback raises, is open.
LockFree == "free"

Control == "control"

\* the name of worker thread w as a holder of a lock
Worker(w) == ToString(w)

LockIdle == _lock = LockFree

\* the job variables that the lock-by-lock actions leave alone
LkJobRest == <<_progress, _result, cargs, wargs, progress_by, result_by>>

\* the other variables
LkOthers ==
    <<image, tpc, targs, got, dropped, sessionVars, mixVars, callVars, raceVars>>

\* the control thread takes the manager's lock and goes to `pc`
ControlTakesLock(pc) ==
    /\ _lock = LockFree
    /\ _lock' = Control
    /\ cpc' = pc
    /\ UNCHANGED <<_current_job, _job_cancelled, njobs, wpc, image_lock>>
    /\ UNCHANGED <<LkJobRest, LkOthers>>

\* start_mixing_job is called and calls cancel_current_job
LkStartCall ==
    /\ cpc = "idle"
    /\ njobs < MaxJobs
    /\ cpc' = "start_cancel_lock"
    /\ UNCHANGED <<_current_job, _job_cancelled, njobs, wpc, image_lock, _lock>>
    /\ UNCHANGED <<LkJobRest, LkOthers>>

\* cancel_current_job is called on its own
LkCancelCall ==
    /\ cpc = "idle"
    /\ cpc' = "cancel_lock"
    /\ UNCHANGED <<_current_job, _job_cancelled, njobs, wpc, image_lock, _lock>>
    /\ UNCHANGED <<LkJobRest, LkOthers>>

\* `with self._lock:` of cancel_current_job
LkCancelLock ==
    /\ cpc \in {"start_cancel_lock", "cancel_lock"}
    /\ ControlTakesLock(IF cpc = "cancel_lock" THEN "cancel" ELSE "start_cancel")

\* self._job_cancelled = True, and the lock is released
LkCancelSet ==
    /\ cpc \in {"start_cancel", "cancel"}
    /\ _job_cancelled' = TRUE
    /\ _lock' = LockFree
    /\ cpc' = IF cpc = "cancel" THEN "cancel_join" ELSE "start_join"
    /\ UNCHANGED <<_current_job, njobs, wpc, image_lock>>
    /\ UNCHANGED <<LkJobRest, LkOthers>>

\* join(timeout=0.1) of a live worker, or no join: the control thread goes
\* on when the worker has ended or the timeout has expired
LkJoin ==
    /\ cpc \in {"start_join", "cancel_join"}
    /\ cpc' = IF cpc = "cancel_join" THEN "idle" ELSE "start_reset_lock"
    /\ UNCHANGED <<_current_job, _job_cancelled, njobs, wpc, image_lock, _lock>>
    /\ UNCHANGED <<LkJobRest, LkOthers>>

\* `with self._lock:` of the reset block
LkResetLock ==
    /\ cpc = "start_reset_lock"
    /\ ControlTakesLock("start_reset")

\* the flag is lowered (progress and result are cleared), lock released
LkReset ==
    /\ cpc = "start_reset"
    /\ _job_cancelled' = FALSE
    /\ _lock' = LockFree
    /\ cpc' = "start_create"
    /\ UNCHANGED <<_current_job, njobs, wpc, image_lock>>
    /\ UNCHANGED <<LkJobRest, LkOthers>>

\* the worker thread is created and started; start_mixing_job returns
LkCreate ==
    /\ cpc = "start_create"
    /\ njobs' = njobs + 1
    /\ _current_job' = njobs + 1
    /\ wpc' = [wpc EXCEPT ![njobs + 1] = "begin_lock"]
    /\ cpc' = "idle"
    /\ UNCHANGED <<_job_cancelled, image_lock, _lock>>
    /\ UNCHANGED <<LkJobRest, LkOthers>>

\* get_progress or get_result is called
LkPollCall ==
    /\ cpc = "idle"
    /\ cpc' = "poll_lock"
    /\ UNCHANGED <<_current_job, _job_cancelled, njobs, wpc, image_lock, _lock>>
    /\ UNCHANGED <<LkJobRest, LkOthers>>

LkPollLock ==
    /\ cpc = "poll_lock"
    /\ ControlTakesLock("poll")

\* return self._progress (or self._result), and the lock is released
LkPoll ==
    /\ cpc = "poll"
    /\ _lock' = LockFree
    /\ cpc' = "idle"
    /\ UNCHANGED <<_current_job, _job_cancelled, njobs, wpc, image_lock>>
    /\ UNCHANGED <<LkJobRest, LkOthers>>

\* handle_upload comes to a resize or a get_data of an ImageModel that a
\* mix holds
LkUploadCall ==
    /\ cpc = "idle"
    /\ cpc' = "upload_lock"
    /\ UNCHANGED <<_current_job, _job_cancelled, njobs, wpc, image_lock, _lock>>
    /\ UNCHANGED <<LkJobRest, LkOthers>>

\* `with self._lock:` of the ImageModel
LkUploadLock ==
    /\ cpc = "upload_lock"
    /\ image_lock = LockFree
    /\ image_lock' = Control
    /\ cpc' = "upload"
    /\ UNCHANGED <<_current_job, _job_cancelled, njobs, wpc, _lock>>
    /\ UNCHANGED <<LkJobRest, LkOthers>>

\* the block of resize or get_data, and the lock is released
LkUpload ==
    /\ cpc = "upload"
    /\ image_lock' = LockFree
    /\ cpc' = "idle"
    /\ UNCHANGED <<_current_job, _job_cancelled, njobs, wpc, _lock>>
    /\ UNCHANGED <<LkJobRest, LkOthers>>

\* a step of the control thread inside a call
LkControlGoesOn ==
    \/ LkCancelLock
    \/ LkCancelSet
    \/ LkJoin
    \/ LkResetLock
    \/ LkReset
    \/ LkCreate
    \/ LkPollLock
    \/ LkPoll
    \/ LkUploadLock
    \/ LkUpload

\* worker w takes the manager's lock and goes to `pc`
WorkerTakesLock(w, pc) ==
    /\ _lock = LockFree
    /\ _lock' = Worker(w)
    /\ wpc' = [wpc EXCEPT ![w] = pc]
    /\ UNCHANGED <<_current_job, _job_cancelled, cpc, njobs, image_lock>>
    /\ UNCHANGED <<LkJobRest, LkOthers>>

\* worker w leaves a block of the manager's lock for `pc`
WorkerLeavesBlock(w, pc) ==
    /\ _lock' = LockFree
    /\ wpc' = [wpc EXCEPT ![w] = pc]
    /\ UNCHANGED <<_current_job, _job_cancelled, cpc, njobs, image_lock>>
    /\ UNCHANGED <<LkJobRest, LkOthers>>

\* worker w goes to `pc` without a lock
WorkerGoes(w, pc) ==
    /\ wpc' = [wpc EXCEPT ![w] = pc]
    /\ UNCHANGED <<_current_job, _job_cancelled, cpc, njobs, image_lock, _lock>>
    /\ UNCHANGED <<LkJobRest, LkOthers>>

\* the blocks of job_worker under self._lock: the first one, the publishing
\* one and the one of the handler
LkWorkerLock(w) ==
    /\ wpc[w] \in {"begin_lock", "publish_lock", "except_lock"}
    /\ WorkerTakesLock(w, IF wpc[w] = "begin_lock" THEN "begin"
                          ELSE IF wpc[w] = "publish_lock" THEN "publish"
                          ELSE "except")

\* a variant of the first block that calls run_async_task inside the block
LkWorkerBeginInsideBlock(w) ==
    /\ wpc[w] = "begin"
    /\ IF _job_cancelled THEN WorkerLeavesBlock(w, "done")
       ELSE WorkerGoes(w, "read_lock")

\* first block: return when cancelled, else progress 0.1; the lock is
\* released and run_async_task is called, which raises or comes to a
\* get_visual_data
LkWorkerBegin(w) ==
    /\ wpc[w] = "begin"
    /\ IF _job_cancelled THEN WorkerLeavesBlock(w, "done")
       ELSE \E pc \in {"read_lock", "except_lock"} : WorkerLeavesBlock(w, pc)

\* `with self._lock:` of the ImageModel, in get_data
LkWorkerReadLock(w) ==
    /\ wpc[w] = "read_lock"
    /\ image_lock = LockFree
    /\ image_lock' = Worker(w)
    /\ wpc' = [wpc EXCEPT ![w] = "read"]
    /\ UNCHANGED <<_current_job, _job_cancelled, cpc, njobs, _lock>>
    /\ UNCHANGED <<LkJobRest, LkOthers>>

\* the block of get_data returns or raises and the lock is released; the mix
\* reads again, returns, or raises
LkWorkerRead(w) ==
    /\ wpc[w] = "read"
    /\ image_lock' = LockFree
    /\ \E pc \in {"read_lock", "publish_lock", "except_lock"} :
          wpc' = [wpc EXCEPT ![w] = pc]
    /\ UNCHANGED <<_current_job, _job_cancelled, cpc, njobs, _lock>>
    /\ UNCHANGED <<LkJobRest, LkOthers>>

\* second block: return when cancelled, else publish; the lock is released
LkWorkerPublish(w) ==
    /\ wpc[w] = "publish"
    /\ WorkerLeavesBlock(w, IF _job_cancelled THEN "done" ELSE "callback")

\* `if callback: callback(result)`: no callback, one that returns, or one
\* that raises into the handler
LkWorkerCallback(w) ==
    /\ wpc[w] = "callback"
    /\ \E pc \in {"done", "except_lock"} : WorkerGoes(w, pc)

\* the handler's block: the error state is published, the lock released
LkWorkerExcept(w) ==
    /\ wpc[w] = "except"
    /\ WorkerLeavesBlock(w, "callback_error")

\* `if callback: callback(None)`, and the thread ends
LkWorkerCallbackError(w) ==
    /\ wpc[w] = "callback_error"
    /\ WorkerGoes(w, "done")

LkWorkerStep(w) ==
    \/ LkWorkerLock(w)
    \/ LkWorkerBegin(w)
    \/ LkWorkerReadLock(w)
    \/ LkWorkerRead(w)
    \/ LkWorkerPublish(w)
    \/ LkWorkerCallback(w)
    \/ LkWorkerExcept(w)
    \/ LkWorkerCallbackError(w)

LockNext ==
    \/ LkStartCall
    \/ LkCancelCall
    \/ LkPollCall
    \/ LkUploadCall
    \/ LkControlGoesOn
    \/ \E w \in Workers : LkWorkerStep(w)

\* ----------------------------------------------------------- specification
Next ==
    \/ \E call \in JobCalls : StartCall(call.inputs, call.callback)
    \/ StartJoin
    \/ StartReset
    \/ StartCreate
    \/ StartRun
    \/ CancelCall
    \/ CancelJoin
    \/ \E w \in Workers : WorkerStep(w)

\* every specification starts with nothing loaded, stored or called
Init == JobInit /\ ImageInit /\ SessionInit /\ MixIdle /\ CallIdle /\ RaceIdle /\ LockIdle

JobSpec == Init /\ [][Next]_vars

ImageSpec == Init /\ [][ImageNext]_vars

SessionSpec == Init /\ [][SessionNext]_vars

ControllerSpec == Init /\ [][ControllerNext]_vars

RegionSpec == Init /\ [][RegionNext]_vars

RaceSpec == Init /\ [][RaceNext]_vars

LockSpec == Init /\ [][LockNext]_vars

\* fair scheduling: a thread that can take a step takes one in the end, and
\* a thread that waits for a lock gets it when the lock is free again and
\* again (every block releases its lock, and the control thread is outside
\* the blocks between two calls): the control thread inside a call, and
\* each worker
FairLockSpec ==
    LockSpec /\ SF_vars(LkControlGoesOn) /\ \A w \in Workers : SF_vars(LkWorkerStep(w))

\* the mixes start from a call drawn from MixCalls
MixStart == JobInit /\ ImageInit /\ SessionInit /\ MixInit /\ CallIdle /\ RaceIdle /\ LockIdle

MixSpec == MixStart /\ [][MixNext]_vars

\* the masks start from a call drawn from MaskCalls
MaskStart == JobInit /\ ImageInit /\ SessionInit /\ MixIdle /\ MaskInit /\ RaceIdle /\ LockIdle

MaskSpec == MaskStart /\ [][MaskNext]_vars

\* the calls on one ImageModel start from ImageModel()
ImageCallStart ==
    JobInit /\ ImageInit /\ SessionInit /\ MixIdle /\ ImageCallInit /\ RaceIdle /\ LockIdle

ImageCallSpec == ImageCallStart /\ [][ImageCallNext]_vars

\* a started thread is scheduled until it ends, and a mix returns or raises
FairJobSpec == JobSpec /\ \A w \in Workers : WF_vars(WorkerStep(w))

TypeOK ==
    /\ _current_job \in 0..MaxJobs
    /\ _job_cancelled \in BOOLEAN
    /\ _progress \in {PROGRESS_RESET, PROGRESS_BEGUN, PROGRESS_DONE, PROGRESS_ERROR}
    /\ njobs \in 0..MaxJobs
    /\ progress_by \in 0..MaxJobs
    /\ result_by \in 0..MaxJobs
    /\ cpc \in {"idle", "start_join", "start_reset", "start_create", "start_run",
                "cancel_join"}
    /\ \A w \in Workers :
          /\ wpc[w] \in {"none", "created", "begin", "compute", "publish",
                          "callback", "except", "callback_error", "done"}
          /\ wargs[w].callback \in Callbacks
          /\ (wpc[w] = "none") <=> (w > njobs)

\* ------------------------------------------------------ shared vocabulary
\* start_mixing_job is executing (between its call and its return)
InStart == cpc \in {"start_join", "start_reset", "start_create", "start_run"}

\* a later start_mixing_job has already reset progress and result
Superseded(w) ==
    /\ wpc[w] # "none"
    /\ \/ w < njobs
       \/ w = njobs /\ cpc = "start_create"

\* the latest job, with the flag never raised since its start
NeitherCancelledNorSuperseded(w) ==
    /\ w = _current_job
    /\ w = njobs
    /\ ~InStart
    /\ cpc # "cancel_join"
    /\ ~_job_cancelled

\* worker w publishes in this step
WorkerWrites(w) ==
    \/ WorkerBegin(w) /\ ~_job_cancelled
    \/ WorkerPublish(w) /\ ~_job_cancelled
    \/ WorkerExcept(w)

\* worker w's thread ends in this step
Terminates(w) == wpc[w] # "done" /\ wpc'[w] = "done"

ValidInputs(inputs) == run_async_task(inputs).kind = "return"

LiveWorkers == {w \in Workers : is_alive(w)}

\* ------------------------------------------------------------------ claims
\* C1: once start_mixing_job(B) has reset progress and result, the worker of
\* the job A it superseded never writes _progress or _result again.
C1_SupersededNeverWrites ==
    [][\A w \in Workers : Superseded(w) => ~WorkerWrites(w)]_vars

\* C2 (safety half): when B's mix succeeds, once start_mixing_job(B) has
\* returned get_result never returns the result of a job A submitted before
\* B.  Read in the claim's favour: a result of A that equals what B's own mix
\* returns is not counted.
C2_NeverOlderResult ==
    \A a, b \in Workers :
        (a < b /\ wpc[b] \notin {"none", "created"})
            => ~(/\ get_result # NoResult
                 /\ result_by = a
                 /\ LET out == run_async_task(wargs[b].inputs)
                    IN out.kind = "return" /\ get_result # out.value)

\* C3: at most one worker thread of the manager is alive at any time.
C3_AtMostOneLiveWorker == Cardinality(LiveWorkers) <= 1

\* C4: the published _progress and _result were written by the same job.
C4_PairFromOneJob == progress_by = result_by

\* C5: get_progress never decreases except by the reset of start_mixing_job.
\* Read in the claim's favour: a drop to the error value -1.0 is not counted.
C5_ProgressMonotonic ==
    [][\/ get_progress' >= get_progress
       \/ StartReset
       \/ get_progress' = PROGRESS_ERROR]_vars

\* C6: a job neither cancelled nor superseded, started with valid inputs, ends
\* with progress 1.0 and the engine's output as result.
C6_ValidJobEndsDone ==
    [][\A w \in Workers :
          (/\ Terminates(w)
           /\ NeitherCancelledNorSuperseded(w)
           /\ ValidInputs(wargs[w].inputs))
          => (/\ _progress' = PROGRESS_DONE
              /\ _result' = run_async_task(wargs[w].inputs).value)]_vars

\* C7: when the mix of the current, non-superseded job raises, the worker ends
\* with progress -1.0 and no result published.
C7_RaisingJobEndsError ==
    [][\A w \in Workers :
          (/\ Terminates(w)
           /\ wpc[w] = "callback_error"
           /\ ~ValidInputs(wargs[w].inputs)
           /\ w = _current_job /\ ~Superseded(w) /\ ~InStart)
          => (_progress' = PROGRESS_ERROR /\ _result' = NoResult)]_vars

\* C7 (its state invariant, which holds): progress -1.0 comes with no result.
C7_ErrorHasNoResult == (_progress = PROGRESS_ERROR) => (_result = NoResult)

\* C8: after cancel_current_job has raised the flag and before any later
\* start_mixing_job, get_progress and get_result never change.
C8_CancelledNeverPublishes ==
    [][(_job_cancelled /\ ~InStart /\ ~InStart')
          => (get_progress' = get_progress /\ get_result' = get_result)]_vars

\* C9: is_job_running is true exactly when some worker thread of the manager
\* has not terminated.
C9_RunningIffWorkerAlive == is_job_running <=> (LiveWorkers # {})

\* C10: from the call of start_mixing_job(B) onward, is_job_running goes from
\* true to false only by the termination of B's worker (B is the job being
\* started, or the latest started one).
C10_FalseOnlyAfterLatestEnds ==
    [][(is_job_running /\ ~is_job_running')
          => (/\ cpc \notin {"start_join", "start_reset", "start_create"}
              /\ _current_job = njobs
              /\ Terminates(njobs))]_vars

\* C10 amended: from the return of start_mixing_job(B) until the next
\* start_mixing_job call, is_job_running goes from true to false exactly once,
\* by the termination of B's worker: never otherwise, never back to true, and
\* under fair scheduling it does happen.
C10_FalseOnceAfterReturn ==
    /\ [][(~InStart /\ is_job_running /\ ~is_job_running')
             => (_current_job = njobs /\ Terminates(njobs))]_vars
    /\ [][(~InStart /\ ~InStart' /\ ~is_job_running) => ~is_job_running']_vars
    /\ (~InStart /\ is_job_running) ~> (InStart \/ ~is_job_running)

\* C10 witness: B was started while A was alive, start_mixing_job(B) has
\* returned, B's worker has ended and is_job_running is false (A still alive).
C10_Witness ==
    /\ njobs = 2
    /\ ~InStart
    /\ is_alive(1)
    /\ wpc[2] = "done"
    /\ ~is_job_running

\* ---------------------------------------------------- ImageModel: claims
\* the transform and every cache that is set belong to the pixels `raw`
CachesBelongTo(img, raw) ==
    /\ img.complex_arr # NoPixels => img.complex_arr = fftshift(fft2(raw))
    /\ \A k \in Kinds : Cached(img, k) # NoPixels => Cached(img, k) = ComponentOfRaw(k, raw)

\* the transform and the four caches are unset
CachesUnset(img) ==
    /\ img.complex_arr = NoPixels
    /\ \A k \in Kinds : Cached(img, k) = NoPixels

\* a load_from_contents or resize that assigned raw returns in this step
MutationEnds ==
    /\ tpc["mutator"] \in {"load_reset", "resize_reset"}
    /\ tpc'["mutator"] = "idle"

\* the last get_data call returned a component of the transform
GotComponent == got.kind \in Kinds /\ got.out.kind = "return"

\* C11: after any sequence of load_from_contents, resize and get_data calls on
\* one ImageModel, get_data(kind) for the four derived kinds returns the
\* component of the current raw pixels: a load or resize that assigned raw
\* returns with the transform and the four caches unset, outside a mutation
\* whatever is cached belongs to the current raw, and the value a get_data
\* call returns is the component of the raw that is current at its return.
C11_ComponentOfCurrentRaw ==
    /\ [][MutationEnds => CachesUnset(image')]_vars
    /\ [](image_lock # "mutator" => CachesBelongTo(image, image.raw))
    /\ [](GotComponent => got.out.value = ComponentOfRaw(got.kind, got.raw))

\* get_data returned a component after a mutation that found a transform
\* computed from the earlier raw
C11_Witness == GotComponent /\ got.after_drop /\ got.raw = image.raw

\* C12: with load_from_contents/resize on one thread and get_data on another,
\* a get_data call is atomic: while it is between its two halves raw is the
\* raw it found when it took the lock and the transform is the transform of
\* that raw, and the component it returns is the component of that raw; a
\* call on a loaded image never raises for a known component type.
C12_GetDataAtomic ==
    /\ tpc["reader"] = "get_fill" =>
          /\ image.raw = targs["reader"].snap
          /\ image.complex_arr = fftshift(fft2(image.raw))
    /\ GotComponent =>
          /\ got.raw = got.snap
          /\ got.out.value = ComponentOfRaw(got.kind, got.snap)
    /\ (got.kind \in Kinds /\ got.out.kind = "raise") => got.snap = NoPixels

\* a get_data call returned a component while the other thread was waiting
\* for the lock with new pixels or a new shape
C12_Witness == GotComponent /\ got.contended /\ got.snap # NoPixels

\* ------------------------------------------------------ registry: claims
\* the slots that hold an image
Populated == {_images[p].index : p \in 1..Len(_images)}

\* the last call was an upload that returned success, or a removal
AfterUploadOrRemoval ==
    \/ last_call.op = "handle_upload" /\ last_call.status = "success"
    \/ last_call.op = "remove_image"

\* the last call ran enforce_unified_size to its end
AfterUnification ==
    /\ last_call.op \in {"handle_upload", "enforce_unified_size"}
    /\ last_call.status = "success"

\* (minimum height, minimum width) over the as-uploaded shapes of the stored
\* images
MinOriginalShape ==
    <<SetMin({uploaded[k][1] : k \in Populated}),
      SetMin({uploaded[k][2] : k \in Populated})>>

\* C13: after every completed upload or remove_image, in any sequence, if
\* the registry is non-empty then every stored ImageModel has raw pixels
\* loaded and its shape equals the recorded common shape get_min_shape().
C13_StoredLoadedAndUnified ==
    (AfterUploadOrRemoval /\ _images # <<>>) =>
        \A p \in 1..Len(_images) :
            /\ _images[p].image.raw # NoPixels
            /\ _images[p].image.shape = get_min_shape

\* C14: after enforce_unified_size on a non-empty registry the common shape
\* is (minimum height, minimum width) over the original, as-uploaded
\* dimensions of the images stored, not over their current dimensions.
C14_CommonShapeFromOriginals ==
    (AfterUnification /\ _images # <<>>) => get_min_shape = MinOriginalShape

\* C15: in every state reached by uploads and remove_image calls,
\* get_min_shape() is None exactly when the registry holds no image.
C15_NoShapeIffEmpty == (get_min_shape = NoShape) <=> (_images = <<>>)

\* ---------------------------------------------------- controller: claims
\* the mix applies the non-zero weight of key k in `sources` to position p of
\* the image list
Applies(sources, images, k, p) ==
    /\ p \in UsedImages(sources, images)
    /\ p - 1 = k
    /\ sources[k] > 0

\* C16: in a mix started through Controller.start_mixing_job, the weight
\* recorded for slot k is applied to the image stored in slot k and to no
\* other image: whenever a non-zero weight of slot k is applied to a position
\* of the image list handed over, that position holds the image of slot k,
\* and a non-zero weight of a populated slot is applied to some position.
C16_WeightOfSlotOnItsImage ==
    ~ControllerIdle =>
        \A sources \in {job_inputs.weights1, job_inputs.weights2} :
            \A k \in Slots :
                /\ \A p \in 1..Len(job_inputs.images) :
                      Applies(sources, job_inputs.images, k, p)
                          => _images[p].index = k
                /\ (k \in Populated /\ sources[k] > 0) =>
                      \E p \in 1..Len(job_inputs.images) :
                          Applies(sources, job_inputs.images, k, p)

\* ----------------------------------------------------------- mix: claims
\* the call has ended
MixCalled == mix_out.kind # None

\* the call has returned a mix
MixReturned == mix_out.kind = "return"

\* the mix that the call runs: mix_images_unified dispatches on its mode
MixOp ==
    IF mix_args.fn = "mix_images_mag_phase" THEN "mag_phase"
    ELSE IF mix_args.fn = "mix_images_real_imag" THEN "real_imag"
    ELSE mix_args.mode

RECURSIVE AppliedWeights(_, _)
\* the sum of the numerators of the coefficients applied at the positions P
AppliedWeights(sources, P) ==
    IF P = {} THEN 0
    ELSE LET p == CHOOSE q \in P : TRUE
         IN Coefficient(sources, p).num + AppliedWeights(sources, P \ {p})

\* C17: in mix_images_mag_phase and mix_images_real_imag, whenever the sum of
\* a component's weights is > 0, the coefficients applied to images sum to 1:
\* their numerators add up to their common denominator, which is then the sum
\* of the weights of the indices that refer to an image of the list.
C17_CoefficientsSumToOne ==
    MixReturned =>
        \A sources \in {mix_args.sources1, mix_args.sources2} :
            SumWeights(sources) > 0 =>
                AppliedWeights(sources, UsedImages(sources, mix_args.images))
                    = SumWeights(sources)

\* C18: in both mixing modes, when the sum of the weights of a component is
\* 0, the mixed component is the first image's component exactly as
\* get_data(kind) returns it (seen in the calls without a mask).
C18_FallbackIsGetData ==
    (MixReturned /\ mix_args.mask = NoMask) =>
        /\ SumWeights(mix_args.sources1) = 0 =>
              /\ mix_out.value.comp1.den = 1
              /\ mix_out.value.comp1.num
                    = get_data(mix_args.images[1], FirstKind(MixOp)).out.value
        /\ SumWeights(mix_args.sources2) = 0 =>
              /\ mix_out.value.comp2.den = 1
              /\ mix_out.value.comp2.num
                    = get_data(mix_args.images[1], SecondKind(MixOp)).out.value

\* the mix that the same call returns without its mask
Unmasked ==
    MixImages(MixOp, mix_args.sources1, mix_args.sources2, mix_args.images,
              NoMask).value

\* C19: with a mask supplied, mix_images_mag_phase multiplies only the mixed
\* magnitude by the mask and leaves the mixed phase as in the unmasked case;
\* mix_images_real_imag multiplies both the mixed real part and the mixed
\* imaginary part by the mask.
C19_MaskByMode ==
    (MixReturned /\ mix_args.mask # NoMask) =>
        /\ mix_out.value.comp1 = Masked(Unmasked.comp1, mix_args.mask)
        /\ MixOp = "mag_phase" => mix_out.value.comp2 = Unmasked.comp2
        /\ MixOp = "real_imag" =>
              mix_out.value.comp2 = Masked(Unmasked.comp2, mix_args.mask)

\* a masked mix by real and imaginary part in which both parts differ from
\* the unmasked case
C19_Witness ==
    /\ MixReturned
    /\ mix_args.mask # NoMask
    /\ MixOp = "real_imag"
    /\ mix_out.value.comp1 # Unmasked.comp1
    /\ mix_out.value.comp2 # Unmasked.comp2

\* C20: mix_images_mag_phase, mix_images_real_imag and mix_images_unified
\* fail with an error and produce no result whenever the image list is
\* empty, for any weights and any mask.
C20_EmptyListRaises ==
    (MixCalled /\ mix_args.images = <<>>) => mix_out.kind = "raise"

\* mix_images_unified was called in a known mode with an empty list, non-zero
\* weights and a mask
C20_Witness ==
    /\ MixCalled
    /\ mix_args.images = <<>>
    /\ mix_args.fn = "mix_images_unified"
    /\ mix_args.mode = "real_imag"
    /\ SumWeights(mix_args.sources1) > 0
    /\ mix_args.mask # NoMask

\* the call got a mask of another shape than its first image
MaskMismatch ==
    /\ mix_args.images # <<>>
    /\ mix_args.mask # NoMask
    /\ Shape(mix_args.mask) # mix_args.images[1].shape

\* C21: in both mixing modes, a supplied mask whose shape differs from the
\* shape of the first (reference) image makes the mix fail with an error and
\* return no reconstructed image, whatever the weights are.
C21_MaskMismatchRaises ==
    (MixCalled /\ MaskMismatch) => mix_out.kind = "raise"

\* a mix of a loaded image with non-zero weights has failed on its mask
C21_Witness ==
    /\ MixCalled
    /\ MaskMismatch
    /\ mix_args.images[1].raw # NoPixels
    /\ SumWeights(mix_args.sources1) > 0
    /\ MixOp \in {"mag_phase", "real_imag"}
    /\ mix_out = Raise("Mask shape does not match image shape")

\* the weights with the entries that refer to no image of the list set to 0
InRange(sources, images) ==
    [k \in DOMAIN sources |-> IF k < Len(images) THEN sources[k] ELSE 0]

\* some entry with a weight above 0 refers to no image of the list
HasStrayWeight(sources, images) ==
    \E k \in DOMAIN sources : k >= Len(images) /\ sources[k] > 0

\* what the called function makes of the arguments `args`
OutcomeOf(args) ==
    IF args.fn = "mix_images_mag_phase"
    THEN mix_images_mag_phase(args.sources1, args.sources2, args.images, args.mask)
    ELSE IF args.fn = "mix_images_real_imag"
    THEN mix_images_real_imag(args.sources1, args.sources2, args.images, args.mask)
    ELSE mix_images_unified(args.mode, args.sources1, args.sources2, args.images,
                            args.mask)

RECURSIVE CellSum(_, _, _, _, _, _)
\* the cell (i, j) of the displayed components of the first n images, each
\* times the weight of its own position
CellSum(sources, images, kind, i, j, n) ==
    IF n = 0 THEN 0
    ELSE sources[n - 1] * get_visual_data(images[n], kind).out.value[i][j]
         + CellSum(sources, images, kind, i, j, n - 1)

\* the numerators of a mixed component are made of the images of the list,
\* each with the weight of its own position, and of nothing else
OnlyListedImages(sources, images, kind, num) ==
    /\ Shape(num) = images[1].shape
    /\ \A i \in 1..Len(num) : \A j \in 1..Len(num[i]) :
          num[i][j] = CellSum(sources, images, kind, i, j, Len(images))

\* C22: a weight entry whose index is not a position of the supplied image
\* list never causes a mix to fail (the mix fails only if it fails with that
\* entry's weight at 0 too) and contributes no image data to the mixed
\* components, in both mixing modes (seen in the calls without a mask).
C22_StrayWeightIgnored ==
    /\ (MixCalled /\ mix_out.kind = "raise" /\ mix_args.images # <<>>)
          => OutcomeOf([mix_args EXCEPT
                 !.sources1 = InRange(mix_args.sources1, mix_args.images),
                 !.sources2 = InRange(mix_args.sources2, mix_args.images)]).kind
                = "raise"
    /\ (MixReturned /\ mix_args.mask = NoMask) =>
          /\ SumWeights(mix_args.sources1) > 0 =>
                OnlyListedImages(mix_args.sources1, mix_args.images,
                                 FirstKind(MixOp), mix_out.value.comp1.num)
          /\ SumWeights(mix_args.sources2) > 0 =>
                OnlyListedImages(mix_args.sources2, mix_args.images,
                                 SecondKind(MixOp), mix_out.value.comp2.num)

\* a mix has returned whose first weights have an entry above 0 for an image
\* of the list and one for no image
C22_Witness ==
    /\ MixReturned
    /\ mix_args.mask = NoMask
    /\ mix_args.sources1[0] > 0
    /\ HasStrayWeight(mix_args.sources1, mix_args.images)
    /\ mix_out.value.comp1.num # Zeros(mix_args.images[1].shape)

\* The spectrum that a mix by magnitude and phase rebuilds, magnitude *
\* exp(i * phase) with the phase in radians, is the transform of `raw`: the
\* magnitude is the transform's and, where it is not 0, the phase is the
\* transform's angle up to whole turns.  A mixed phase is a fraction and the
\* angles explored are whole quarter turns (multiples of pi / 2), so the two
\* agree only where both are 0.  _perform_ifft inverts the transform and
\* clips to 0..255, where the pixels are: it returns `raw` exactly when the
\* spectrum is the transform of `raw`.
RebuildsTransformOf(mixed, raw) ==
    \A i \in 1..Len(raw) : \A j \in 1..Len(raw[i]) :
        /\ mixed.comp1.num[i][j]
              = mixed.comp1.den * ComponentOfRaw("magnitude", raw)[i][j]
        /\ ComponentOfRaw("magnitude", raw)[i][j] # 0 =>
              /\ mixed.comp2.num[i][j] = 0
              /\ ComponentOfRaw("phase", raw)[i][j] = 0

\* mix_images_mag_phase was called with one image, weights {0: 1.0} for both
\* slots and no mask
IdentityMixCall ==
    /\ mix_args.fn = "mix_images_mag_phase"
    /\ Len(mix_args.images) = 1
    /\ mix_args.sources1 = Weights(10, 0, 0, 0)
    /\ mix_args.sources2 = Weights(10, 0, 0, 0)
    /\ mix_args.mask = NoMask

\* C23: identity mix: for a single image, mix_images_mag_phase with weights
\* {0: 1.0} for both the magnitude and the phase slot and no mask returns that
\* image's own reconstruction, the inverse transform of its forward
\* transform, equal to its raw pixels.
C23_IdentityMix ==
    (MixReturned /\ IdentityMixCall)
        => RebuildsTransformOf(mix_out.value, mix_args.images[1].raw)

\* -------------------------------------------------------- RegionHandler: claims
\* create_mask has returned
MaskReturned == call_args.fn = "create_mask" /\ call_out.kind = "return"

\* create_mask was called with a rectangle
RectGiven == call_args.fn = "create_mask" /\ call_args.rect_coords # NoRect

\* C24: for every shape and every rectangle, create_mask(shape, rect, True)
\* and create_mask(shape, rect, False) are element-wise complements: at each
\* cell exactly one of the two masks is 1 and the other is 0.  The mask
\* returned is compared with the mask of the other polarity.
C24_MasksAreComplements ==
    (MaskReturned /\ RectGiven) =>
        \A i \in 1..call_args.shape[1] : \A j \in 1..call_args.shape[2] :
            {call_out.value[i][j],
             create_mask(call_args.shape, call_args.rect_coords,
                         ~call_args.is_inner)[i][j]} = {0, 1}

\* an outer mask has returned for a rectangle that leaves cells out
C24_Witness ==
    /\ MaskReturned /\ RectGiven
    /\ ~call_args.is_inner
    /\ \E i \in 1..call_args.shape[1] : \E j \in 1..call_args.shape[2] :
           call_out.value[i][j] = 1
    /\ \E i \in 1..call_args.shape[1] : \E j \in 1..call_args.shape[2] :
           call_out.value[i][j] = 0

\* clamp(v, 0, n - 1), min and max as the claim writes them
ClampTo(v, lo, hi) == IF v < lo THEN lo ELSE IF v > hi THEN hi ELSE v
MinOf(a, b) == IF a <= b THEN a ELSE b
MaxOf(a, b) == IF a >= b THEN a ELSE b

\* the cell (row, col), counted from 0, lies in the clamped rectangle
InClampedRect(row, col, shape, rect) ==
    /\ MinOf(ClampTo(rect[2], 0, shape[1] - 1), ClampTo(rect[4], 0, shape[1] - 1))
          <= row
    /\ row <=
          MaxOf(ClampTo(rect[2], 0, shape[1] - 1), ClampTo(rect[4], 0, shape[1] - 1))
    /\ MinOf(ClampTo(rect[1], 0, shape[2] - 1), ClampTo(rect[3], 0, shape[2] - 1))
          <= col
    /\ col <=
          MaxOf(ClampTo(rect[1], 0, shape[2] - 1), ClampTo(rect[3], 0, shape[2] - 1))

\* C25: for every shape (H, W) with H, W >= 1 and every integer rectangle
\* (x1, y1, x2, y2), out-of-range and reversed coordinates included, the
\* inner mask has shape (H, W), values only in {0, 1}, and is 1 exactly at
\* the cells (row, col) of the clamped rectangle, both ends included.
C25_InnerMaskIsClampedRect ==
    (MaskReturned /\ RectGiven /\ call_args.is_inner) =>
        /\ Shape(call_out.value) = call_args.shape
        /\ \A i \in 1..call_args.shape[1] : \A j \in 1..call_args.shape[2] :
              /\ call_out.value[i][j] \in {0, 1}
              /\ call_out.value[i][j] = 1 <=>
                    InClampedRect(i - 1, j - 1, call_args.shape,
                                  call_args.rect_coords)

\* an inner mask has returned for a reversed rectangle with a corner out of
\* range that covers more than one cell and not the whole matrix
C25_Witness ==
    /\ MaskReturned /\ RectGiven /\ call_args.is_inner
    /\ call_args.rect_coords[1] > call_args.rect_coords[3]
    /\ call_args.rect_coords[2] < 0
    /\ call_args.rect_coords[1] > call_args.shape[2] - 1
    /\ \E i \in 1..call_args.shape[1] : \E j \in 1..call_args.shape[2] :
           call_out.value[i][j] = 0
    /\ \E i \in 1..call_args.shape[1] : \E j, k \in 1..call_args.shape[2] :
           j # k /\ call_out.value[i][j] = 1 /\ call_out.value[i][k] = 1

\* C26: create_mask(shape, None, is_inner) returns a matrix of the given
\* shape whose every cell is 1, for both values of is_inner.
C26_NoRectIsAllOnes ==
    (MaskReturned /\ ~RectGiven) =>
        /\ Shape(call_out.value) = call_args.shape
        /\ \A i \in 1..call_args.shape[1] : \A j \in 1..call_args.shape[2] :
              call_out.value[i][j] = 1

\* an outer mask has returned for no rectangle and more than one cell
C26_Witness ==
    /\ MaskReturned /\ ~RectGiven
    /\ ~call_args.is_inner
    /\ call_args.shape[1] > 1 /\ call_args.shape[2] > 1

\* ------------------------------------------- ImageModel, call by call: claims
\* the last call was get_data or get_visual_data on an ImageModel whose raw
\* pixels are unset
ReadOfUnloaded ==
    /\ call_args.fn \in {"get_data", "get_visual_data"}
    /\ call_args.before.raw = NoPixels

\* C27: get_data(kind) and get_visual_data(kind) called on an ImageModel
\* whose raw pixels are unset fail with an error for every kind, and leave
\* the ImageModel's shape, transform and caches unchanged.
C27_UnloadedReadRaises ==
    ReadOfUnloaded =>
        /\ call_out.kind = "raise"
        /\ image.shape = call_args.before.shape
        /\ image.complex_arr = call_args.before.complex_arr
        /\ \A kind \in Kinds : Cached(image, kind) = Cached(call_args.before, kind)

\* get_visual_data('magnitude') was called on an ImageModel left unloaded by
\* a load that could not decode its contents
C27_Witness ==
    /\ ReadOfUnloaded
    /\ call_args.fn = "get_visual_data"
    /\ call_args.kind = "magnitude"
    /\ call_args.previous.fn = "load_from_contents"

\* the last call was load_from_contents with contents that do not decode
LoadOfUndecodable ==
    /\ call_args.fn = "load_from_contents"
    /\ Decode(call_args.contents).kind = "raise"

\* C28: when the uploaded content cannot be decoded into a pixel matrix, the
\* load operation fails with an error that reaches its caller (it does not
\* return normally), and the ImageModel's raw, shape and caches are left as
\* they were.
C28_DecodeErrorReachesCaller ==
    LoadOfUndecodable =>
        /\ call_out.kind = "raise"
        /\ image = call_args.before

\* the last call was get_visual_data and it returned
VisualReturned ==
    call_args.fn = "get_visual_data" /\ call_out.kind = "return"

\* the call before the last one was get_visual_data of the same kind
\* and it returned
VisualTwice ==
    /\ VisualReturned
    /\ call_args.previous.fn = "get_visual_data"
    /\ call_args.previous.kind = call_args.kind
    /\ call_args.previous.out.kind = "return"

\* every value of the array is in [0, 1]
InUnit(a) == \A i \in 1..Len(a) : \A j \in 1..Len(a[i]) : 0 <= a[i][j] /\ a[i][j] <= 1

\* what is stored in `after` was stored in `before`, or `before` had nothing
\* there and it is what get_data derives from the raw pixels
StoredValuesKept(before, after) ==
    /\ after.raw = before.raw
    /\ after.shape = before.shape
    /\ after.complex_arr \in {before.complex_arr} \cup
          (IF before.complex_arr = NoPixels
           THEN {fftshift(fft2(before.raw))} ELSE {})
    /\ \A kind \in Kinds :
          Cached(after, kind) \in {Cached(before, kind)} \cup
             (IF Cached(before, kind) = NoPixels
              THEN {ComponentOfRaw(kind, before.raw)} ELSE {})

\* C29: get_visual_data is idempotent and side-effect free on the visible
\* data: for any loaded image and any kind, two consecutive calls with no
\* intervening load or resize return identical output with every value in
\* [0, 1], and the call never changes the raw pixels or the values stored in
\* the transform and component caches (no accumulated log application).
C29_VisualIdempotent ==
    /\ VisualTwice => call_out.value = call_args.previous.out.value
    /\ VisualReturned =>
          /\ InUnit(call_out.value)
          /\ StoredValuesKept(call_args.before, image)

\* get_visual_data('magnitude') has returned twice in a row, the second
\* time from a filled cache, with both 0 and 1 in its output
C29_Witness ==
    /\ VisualTwice
    /\ call_args.kind = "magnitude"
    /\ call_args.before.cached_magnitude # NoPixels
    /\ \E i \in 1..Len(call_out.value) : \E j, k \in 1..Len(call_out.value[i]) :
           call_out.value[i][j] = 0 /\ call_out.value[i][k] = 1

\* ------------------------------------------------------ mix: frame claim
\* the image `after` is the image `before` with nothing changed but a
\* transform or cache that was unset and holds what get_data derives
OnlyCachesFilled(before, after) ==
    IF before.raw = NoPixels THEN after = before
    ELSE StoredValuesKept(before, after)

\* the objects handed to the mix are after the call what they were before,
\* up to filled caches of the images the mix reads
InputsKept(args, after) ==
    /\ after.sources1 = args.sources1
    /\ after.sources2 = args.sources2
    /\ after.mask = args.mask
    /\ Len(after.images) = Len(args.images)
    /\ \A p \in 1..Len(args.images) :
          /\ OnlyCachesFilled(args.images[p], after.images[p])
          /\ p \notin ReadImages(args.sources1, args.images)
                   \cup ReadImages(args.sources2, args.images)
                => after.images[p] = args.images[p]

\* C30: a mixing call (either mode, success or failure) changes no input:
\* every image's raw pixels and shape, the registry's common shape, the
\* weight mappings and the supplied mask are the same after the call as
\* before; the only state it may change is lazily filling transform and
\* component caches of the images it reads.
C30_MixChangesNoInput ==
    [][(mix_out.kind = None /\ mix_out'.kind # None) =>
          /\ InputsKept(mix_args, mix_after')
          /\ _min_shape' = _min_shape
          /\ _images' = _images]_vars

\* a mix has failed after it has filled the magnitude cache of the first
\* image, whose raw pixels are what they were
C30_Witness ==
    /\ mix_out.kind = "raise"
    /\ mix_args.images # <<>>
    /\ mix_args.images[1].cached_magnitude = NoPixels
    /\ mix_after.images[1].cached_magnitude # NoPixels
    /\ mix_after.images[1].raw = mix_args.images[1].raw

\* ------------------------------------------------- registry: failed uploads
\* this step is a handle_upload that returns status 'error'
UploadFails ==
    /\ \E contents \in UploadPool, index \in RegistrySlots :
          HandleUpload(contents, index)
    /\ last_call'.status = "error"

\* this step is a handle_upload of contents that decode
UploadOfPicture ==
    \E contents \in UploadPool, index \in RegistrySlots :
        /\ Decode(contents).kind = "return"
        /\ HandleUpload(contents, index)

\* C31: an upload that fails (handle_upload returns status 'error', e.g.
\* because the content cannot be decoded) leaves the session registry exactly
\* as it was: the set of populated slots, the ImageModel held in each slot
\* and the common shape are unchanged, and later uploads of valid images
\* still succeed.
C31_FailedUploadLeavesRegistry ==
    [][/\ UploadFails => (_images' = _images /\ _min_shape' = _min_shape)
       /\ UploadOfPicture => last_call'.status = "success"]_vars

\* ------------------------------------------------------ controller: mask
\* C33: whenever Controller.start_mixing_job starts a job, the controller's
\* current mask is either None or has shape equal to the registry's current
\* common shape, after any sequence of handle_upload and apply_region_mask
\* calls.
C33_MaskHasCommonShape ==
    ~ControllerIdle =>
        \/ job_inputs.mask = NoMask
        \/ Shape(job_inputs.mask) = get_min_shape

\* ---------------------------------------------------- job: the callback
\* the worker threads created so far
Created == {w \in Workers : wpc[w] # "none"}

\* this step replaces the result that job w published with progress 1.0 by
\* the error state of job w
DoneBecomesError(w) ==
    /\ _progress = PROGRESS_DONE /\ progress_by = w
    /\ _progress' = PROGRESS_ERROR /\ progress_by' = w

\* C38: the completion callback passed to start_mixing_job is invoked at
\* most once per job (with the result on success or with None on failure),
\* including when the callback itself raises, and a successfully published
\* result with progress 1.0 is never afterwards replaced by the error state
\* of the same job.
C38_CallbackAtMostOnce ==
    [][/\ \A w \in Created : wargs[w].called <= 1
       /\ \A w \in Workers : ~DoneBecomesError(w)]_vars

\* ------------------------------------------------ ImageModel: its states
AllCachesUnset(img) == \A kind \in Kinds : Cached(img, kind) = NoPixels

Empty(img) ==
    img.raw = NoPixels /\ img.complex_arr = NoPixels /\ AllCachesUnset(img)

RawOnly(img) ==
    img.raw # NoPixels /\ img.complex_arr = NoPixels /\ AllCachesUnset(img)

TransformComputed(img) == img.raw # NoPixels /\ img.complex_arr # NoPixels

\* this step is the get_data('raw') of the reading thread
GetsRaw ==
    /\ tpc["reader"] = "get_lock" /\ targs["reader"].kind = "raw"
    /\ tpc'["reader"] = "idle"

\* C35: every reachable state of an ImageModel is one of Empty, RawOnly or
\* TransformComputed: a derived cache is never set while the transform is
\* unset, and the transform is never set while raw is unset; get_data('raw')
\* never leaves RawOnly.
C35_ThreeStates ==
    [][/\ Empty(image) \/ RawOnly(image) \/ TransformComputed(image)
       /\ Empty(image') \/ RawOnly(image') \/ TransformComputed(image')
       /\ (GetsRaw /\ RawOnly(image)) => RawOnly(image')]_vars

\* every state has been seen: get_data('raw') has returned from an image
\* that is RawOnly after a mutation that dropped a transform
C35_Witness ==
    /\ got.kind = "raw" /\ got.out.kind = "return"
    /\ got.after_drop
    /\ RawOnly(image)

\* ---------------------------------------------------- controller: sliders
\* C36: after any sequence of Controller.handle_slider_update calls, for
\* every slot index at most one of the two weight groups (comp1, comp2)
\* holds a non-zero weight: assigning a weight to one group for a slot sets
\* the other group's weight for that slot to 0.
C36_OneGroupPerSlot ==
    \A k \in Slots : _weights_comp1[k] = 0 \/ _weights_comp2[k] = 0

\* slot 0 was given to comp1 and then to comp2, slot 1 is with comp1
C36_Witness ==
    /\ last_call = [op |-> "handle_slider_update", status |-> "success"]
    /\ _weights_comp2[0] = 10 /\ _weights_comp1[0] = 0
    /\ _weights_comp1[1] = 10

\* every weight stored is in [0, 1]
WeightsInUnit ==
    \A k \in Slots :
        /\ 0 <= _weights_comp1[k] /\ _weights_comp1[k] <= 10
        /\ 0 <= _weights_comp2[k] /\ _weights_comp2[k] <= 10

\* this step is a handle_slider_update with a value outside [0, 1]
UpdateOutOfRange ==
    \E val \in {v \in SliderValues : v < 0 \/ v > 10}, index \in SliderSlots,
       component_group \in {"comp1", "comp2"} :
        HandleSliderUpdate(val, index, component_group)

\* C37: Controller.handle_slider_update with a value outside [0, 1] returns
\* status 'error' and leaves both weight mappings unchanged, so every weight
\* stored in the controller is in [0, 1] in every reachable state.
C37_OutOfRangeRejected ==
    [][/\ UpdateOutOfRange =>
             /\ last_call'.status = "error"
             /\ UNCHANGED <<_weights_comp1, _weights_comp2>>
       /\ WeightsInUnit /\ WeightsInUnit']_vars

\* a value out of range was refused while a weight of 1.0 is stored
C37_Witness ==
    /\ last_call = [op |-> "handle_slider_update", status |-> "error"]
    /\ _weights_comp1[0] = 10

\* -------------------------------------------- a mix during an upload: claim
\* C32: a running mix job never combines components of two images that have
\* different shapes, and never uses a reference shape that differs from the
\* shape of the components it reads, even when handle_upload (store_image
\* and enforce_unified_size, which resizes images in place one by one) runs
\* on the control thread concurrently with the job.
C32_MixReadsOneShape ==
    \A r \in 1..Len(mixrun.reads) :
        /\ mixrun.reads[r].shape = mixrun.shape
        /\ \A q \in 1..Len(mixrun.reads) :
              mixrun.reads[q].shape = mixrun.reads[r].shape

\* ------------------------------------------------------------ locks: claim
LockThreads == {Control} \cup {Worker(w) : w \in Workers}

\* the threads that wait for the manager's lock, and for the ImageModel's
WaitsForManager ==
    (IF cpc \in {"start_cancel_lock", "cancel_lock", "start_reset_lock", "poll_lock"}
     THEN {Control} ELSE {})
    \cup {Worker(w) : w \in {v \in Workers :
              wpc[v] \in {"begin_lock", "publish_lock", "except_lock"}}}

WaitsForImage ==
    (IF cpc = "upload_lock" THEN {Control} ELSE {})
    \cup {Worker(w) : w \in {v \in Workers : wpc[v] = "read_lock"}}

\* no thread waits for one of the two locks with the other one in its hands
NoNestedWait ==
    \A t \in LockThreads :
        /\ ~(_lock = t /\ t \in WaitsForImage)
        /\ ~(image_lock = t /\ t \in WaitsForManager)

\* start_mixing_job is executing
LkInStart ==
    cpc \in {"start_cancel_lock", "start_cancel", "start_join", "start_reset_lock",
             "start_reset", "start_create"}

\* the mix of worker w has returned or raised
MixEnded(w) ==
    wpc[w] \in {"publish_lock", "publish", "callback", "except_lock", "except",
                "callback_error"}

\* C34: no interleaving of the control thread (start_mixing_job,
\* cancel_current_job, polls, uploads) with worker threads deadlocks: no
\* thread ever waits for an ImageModel lock while holding the
\* AsyncJobManager lock or the reverse, start_mixing_job always returns, and
\* under fair scheduling every worker whose mixing computation returns or
\* raises eventually terminates.
C34_NoDeadlock ==
    /\ []NoNestedWait
    /\ LkInStart ~> (cpc = "idle")
    /\ \A w \in Workers : MixEnded(w) ~> (wpc[w] = "done")

\* the control thread waits for the manager's lock, which one worker holds,
\* while the other worker holds the ImageModel's lock
C34_Witness ==
    /\ cpc = "cancel_lock"
    /\ _lock \in {Worker(w) : w \in Workers}
    /\ image_lock \in {Worker(w) : w \in Workers}
    /\ _lock # image_lock

====
